---- MODULE Spec2Model ----
(***************************************************************************)
(* Data Processing Chain Protocol: the node execution engine (Node.ts) and *)
(* the supervisor (NodeSupervisor.ts) as a state machine.                  *)
(*                                                                         *)
(* One step of the model is one run-to-completion turn of the JavaScript   *)
(* event loop: the code between two points where a handler really waits    *)
(* (the setImmediate of processBatch, the completion of a processor        *)
(* callback, the end of another node's execution queue, a message in       *)
(* flight between two hosts).                                              *)
(***************************************************************************)
EXTENDS Integers, Sequences, FiniteSets, TLC

\* ---------------------------------------------------------------- bounds
MaxPipelines == 4    \* pipelines added to one node
MaxOps == 3          \* requests from outside, NODE_CREATE and CHAIN_DEPLOY included
MaxChains == 1       \* chains deployed
MaxThrows == 1       \* processor callbacks that throw
MaxRuns == 2         \* executions of one node that a routed run may add to

\* ------------------------------------------------------ program constants
BatchSize == 3       \* getPipelineGenerator(this.pipelines, 3)
\* The ChainType bits; the code only tests them, so any two distinct bits do.
PERSISTANT == 2
AUTO_DELETE == 4

NODE_PENDING == "NODE_PENDING"
NODE_IN_PROGRESS == "NODE_IN_PROGRESS"
NODE_COMPLETED == "NODE_COMPLETED"
NODE_FAILED == "NODE_FAILED"
NODE_SUSPENDED == "NODE_SUSPENDED"
NODE_SUSPEND == "NODE_SUSPEND"
NODE_RESUME == "NODE_RESUME"
NODE_RUN == "NODE_RUN"
NODE_END_OF_PIPELINE == "NODE_END_OF_PIPELINE"
NODE_PENDING_DELETION == "NODE_PENDING_DELETION"
NODE_SETUP_COMPLETED == "NODE_SETUP_COMPLETED"
CHAIN_DEPLOYED == "CHAIN_DEPLOYED"
CHILD_CHAIN_STARTED == "CHILD_CHAIN_STARTED"
CHILD_CHAIN_COMPLETED == "CHILD_CHAIN_COMPLETED"
RemoteServiceCallback == "remoteServiceCallback"
TypeLocal == "LOCAL"     \* NodeType.LOCAL
TypeRemote == "REMOTE"   \* NodeType.REMOTE
LocLocal == "local"      \* NodeConfig.location
LocRemote == "remote"

Hosts == {"h1", "h2"}
MaxNodes == 3             \* nodes created, on all hosts together
MaxAdditional == 2        \* entries of data.additionalData before the pre-stage
NodeIds == 1..MaxNodes

\* Service identifiers (targetId) and the host each one resolves to.
SvcA == "svcA"
SvcB == "svcB"
SvcC == "svcC"
\* The host resolver: where a remote target lives.
HostOf(t) == IF t = SvcC THEN "h2" ELSE "h1"

\* ------------------------------------------------------------------ data
\* A data value is a sequence of tokens: the submitted item followed by the mark
\* of every processor that digested it.  <<>> is undefined.
Undefined == <<>>
WrapTag == "resumed"

\* PipelineProcessor.digest with a callback that marks the data with its target.
digest(targetId, data) == Append(data, targetId)

\* Node.processPipeline: fold the processors left to right.
RECURSIVE processPipeline(_, _)
processPipeline(pipeline, data) ==
  IF pipeline = <<>> THEN data
  ELSE processPipeline(Tail(pipeline), digest(Head(pipeline), data))

\* {data: suspendedState.data, previousNodeParams: ...} pushed on resume.
ResumedOutput(data) == <<WrapTag>> \o data

\* Node.getPipelineGenerator: the batch that starts at cursor i (0-based).
getPipelineGenerator(pipelines, count, i) ==
  { p \in 1..Len(pipelines) : p > i /\ p <= i + count }

Bit(chainType, bit) == (chainType \div bit) % 2 = 1

\* ----------------------------------------------------------------- state
VARIABLES
  node,          \* NodeIds -> node object (Node.ts fields + its status manager)
  nodes,         \* Hosts -> set of registered node ids (NodeSupervisor.nodes)
  nextId,        \* next fresh node id (randomUUID)
  chains,        \* Hosts -> chainId -> relation, <<>> if absent (NodeSupervisor.chains)
  nextChain,     \* number of the next chain id createChain hands out
  ops,           \* requests from outside handled so far, in order
  net,           \* messages in flight between hosts (remoteServiceCallback, setup)
  throws,        \* processor callbacks that have thrown so far
  pre,           \* the pre-stage of one execution: its input, preData, merged data
  reports,       \* what the supervisor's own reporting agent was handed, in order
  reply,         \* what the caller of handleRequest CHAIN_DEPLOY got last
  childChains    \* Hosts -> parent chainId -> child chainIds (NodeSupervisor.childChains)

vars == <<node, nodes, nextId, chains, nextChain, net, ops, throws, pre, reports, reply,
          childChains>>

NoChain == "none"
ChainNames == <<"c1", "c2", "c3", "c4">>
ChainIds == {ChainNames[i] : i \in 1..MaxChains}
\* The chain of a node that deploys child chains, and the keys childChains may get.
ParentChain == "c0"
ParentIds == ChainIds \cup {ParentChain}

\* NodeConfig; -1, "" and <<>> stand for an absent field.
\* chainConfig holds the childMode of each of its entries; rootConfig, if
\* present, is <<[childMode, monitoringHost, chainId]>>, the parent node's config.
NoConfig == [chainId |-> NoChain, chainType |-> 0, services |-> <<>>,
             location |-> LocLocal, index |-> -1, count |-> -1, signalQueue |-> <<>>,
             monitoringHost |-> "", nextTargetId |-> <<>>,
             chainConfig |-> <<>>, rootConfig |-> <<>>]

\* ChainRelation, with the calls of startPendingChain that await the chain's
\* run, <<[mode, ticket]>>, and (history) the number of those that have returned.
NewRelation(config) ==
  [config |-> config, rootNodeId |-> <<>>, dataRef |-> <<>>,
   pendingStarts |-> <<>>, returned |-> 0]

\* new Node(): the constructor's field values.
NewNode == [
  created |-> FALSE, host |-> "h1", config |-> NoConfig,
  pipelines |-> <<>>, status |-> NODE_PENDING, progress |-> 0, output |-> <<>>,
  error |-> FALSE,
  reporting |-> FALSE, \* does the node have a reporting agent?
  nextNodeInfo |-> <<>>,  \* <<[type, id, targetId]>>: id if LOCAL, targetId if REMOTE
  queue |-> <<>>,      \* executionQueue: executions chained and not yet started
  cur |-> <<>>,        \* the execution whose queued work is running
  pc |-> "idle",       \* where that work waits
  cursor |-> 0,        \* generator cursor: pipelines already handed out
  inflight |-> {},     \* pipelines started and not yet settled
  enq |-> 0,           \* executions chained so far
  fin |-> 0,           \* executions whose queued work has ended
  wait |-> <<>>,       \* <<m, ticket>>: awaiting execution `ticket` of node m
  signalQueue |-> <<>>, smStatus |-> {}, suspendedState |-> <<>>,
  resumePayload |-> <<>>,
  \* history, read by no handler:
  transitions |-> {},  \* <<from, to>> of every status change
  completions |-> 0,   \* times the node reached NODE_COMPLETED
  last |-> <<>>,       \* the execution that completed last
  resumes |-> 0,       \* NODE_RESUME signals that found a suspended state
  resumedRuns |-> 0,   \* executions that took the resume branch
  handoffs |-> 0,      \* hand-off actions taken by moveToNextNode
  lastHandoff |-> <<>>,   \* <<[kind, id, targetId, data]>> of the latest one
  forwarded |-> <<>>,     \* <<value>> Node.terminate passed on last
  notified |-> <<>>,   \* statuses handed to the node's reporting agent, in order
  policies |-> 0,      \* times the deletion policy ran after a hand-off
  pendings |-> 0 ]     \* NODE_PENDING_DELETION signals emitted

\* The whole state as one record, so that handlers compose like the calls do.
\* thrown: has the call in progress thrown an error that nothing has caught?
World == [node |-> node, nodes |-> nodes, nextId |-> nextId, chains |-> chains,
          nextChain |-> nextChain, net |-> net, reports |-> reports,
          childChains |-> childChains, thrown |-> FALSE]

\* The handlers below are those of nodes without config.pre: pre is not theirs.
Apply(W) ==
  /\ pre' = pre
  /\ node' = W.node
  /\ nodes' = W.nodes
  /\ nextId' = W.nextId
  /\ chains' = W.chains
  /\ nextChain' = W.nextChain
  /\ net' = W.net
  /\ reports' = W.reports
  /\ childChains' = W.childChains

\* A handler whose result no claim reads has run.
Commit(W) == Apply(W) /\ reply' = reply

\* What a caller of handleRequest gets: the error thrown or the value returned
\* (<<>> if none), with the number of the request.
Reply(op, error, value) == [op |-> op, error |-> error, value |-> value]
NoReply == Reply(0, FALSE, <<>>)

\* A value of the payload's config field: undefined, an array of its items, or
\* something else.
JsUndefined == [defined |-> FALSE, isArray |-> FALSE, items |-> <<>>]
JsObject == [defined |-> TRUE, isArray |-> FALSE, items |-> <<>>]
JsArray(items) == [defined |-> TRUE, isArray |-> TRUE, items |-> items]

\* PipelineData as the pre-stage sees it: a payload, additionalData (absent: <<>>,
\* present: <<list>>) and origin (absent: <<>>, present: <<data>>).
PipelineData(payload, additionalData, origin) ==
  [payload |-> payload, additionalData |-> additionalData, origin |-> origin]

\* What processPreChain returned: a value known by its name, with its data field
\* if it has one (<<>> if not).  The name "undefined" is undefined.
PreData(name, data) == [name |-> name, data |-> data]
NoPre == [data |-> PipelineData("", <<>>, <<>>), preData |-> PreData("undefined", <<>>),
          merged |-> <<>>]

InitSupervisor ==
  /\ node = [n \in NodeIds |-> NewNode]
  /\ nodes = [h \in Hosts |-> {}]
  /\ nextId = 1
  /\ chains = [h \in Hosts |-> [c \in ChainIds |-> <<>>]]
  /\ nextChain = 1
  /\ net = <<>>
  /\ reports = <<>>
  /\ reply = NoReply
  /\ childChains = [h \in Hosts |-> [p \in ParentIds |-> <<>>]]
  /\ ops = 0
  /\ throws = 0

Init ==
  /\ InitSupervisor
  /\ pre = NoPre

\* ------------------------------------------------- node status manager
\* NodeStatusManager.suspendExecution(generator, currentBatch, data)
suspendExecution(W, n, cursor, batch, data) ==
  [W EXCEPT !.node[n].suspendedState =
              <<[cursor |-> cursor, batch |-> batch, data |-> data,
                 \* history: the stashing execution, its outputs so far, its input
                 by |-> W.node[n].cur[1].id, pushed |-> W.node[n].cur[1].pushed,
                 input |-> data]>>]

\* NodeStatusManager.clearSuspendedState
clearSuspendedState(W, n) == [W EXCEPT !.node[n].suspendedState = <<>>]

\* NodeStatusManager.isSuspended
isSuspended(W, n) == NODE_SUSPENDED \in W.node[n].smStatus

\* ------------------------------------------------------------ Node.ts
\* Node.updateStatus
updateStatus(W, n, status) ==
  [W EXCEPT !.node[n].status = status,
            !.node[n].error = IF status = NODE_FAILED THEN TRUE ELSE @,
            !.node[n].transitions =
               IF status # W.node[n].status THEN @ \cup {<<W.node[n].status, status>>}
               ELSE @,
            !.node[n].completions = IF status = NODE_COMPLETED THEN @ + 1 ELSE @,
            !.node[n].notified = IF W.node[n].reporting THEN Append(@, status) ELSE @]

\* A variant of Node.notify that hands every status to the agent twice.
notifyTwice(W, n, status) ==
  IF W.node[n].reporting
  THEN [W EXCEPT !.node[n].notified = Append(Append(@, status), status),
                 !.node[n].pendings =
                    IF status = NODE_PENDING_DELETION THEN @ + 1 ELSE @]
  ELSE W

\* Node.notify(status, 'global-signal'): without a reporting agent the call
\* throws 'Reporter not set' into its own catch and nothing is emitted.
notify(W, n, status) ==
  IF W.node[n].reporting
  THEN [W EXCEPT !.node[n].notified = Append(@, status),
                 !.node[n].pendings =
                    IF status = NODE_PENDING_DELETION THEN @ + 1 ELSE @]
  ELSE W

\* Node.updateProgress: progress counts steps of 1/pipelines.length.
updateProgress(W, n) == [W EXCEPT !.node[n].progress = @ + 1]

\* Node.execute, the part that runs in the caller's turn: the suspended state is
\* read and the work is chained onto the execution queue.
execute(W, n, data) ==
  LET nd == W.node[n]
      ex == [id |-> nd.enq + 1, data |-> data,
             isResuming |-> nd.suspendedState # <<>>,
             suspendedState |-> nd.suspendedState,
             pushed |-> 0]   \* history: outputs this execution has pushed
  IN [W EXCEPT !.node[n].queue = Append(@, ex), !.node[n].enq = @ + 1]

\* The queued work of an execution has returned: the queue promise resolves.
endExecution(W, n) ==
  [W EXCEPT !.node[n].cur = <<>>, !.node[n].pc = "idle",
            !.node[n].wait = <<>>, !.node[n].fin = @ + 1]

\* NodeSupervisor.deleteNode
deleteNode(W, h, id) == [W EXCEPT !.nodes[h] = @ \ {id}]

\* NodeSupervisor.runNode
runNode(W, h, id, data) ==
  IF id \in W.nodes[h] THEN execute(W, id, data) ELSE W

\* A message in flight.
Msg(kind, to, chainId, targetId, data, config) ==
  [kind |-> kind, to |-> to, chainId |-> chainId, targetId |-> targetId,
   data |-> data, config |-> config]

\* Ext.remoteServiceCallback: the payload is posted to the host of the target.
remoteServiceCallback(W, chainId, targetId, data) ==
  IF chainId = NoChain THEN W
  ELSE [W EXCEPT !.net =
          Append(@, Msg("run", HostOf(targetId), chainId, targetId, data, NoConfig))]

\* A variant of deletionPolicy that tests the AUTO_DELETE bit first.
deletionPolicyAutoFirst(W, n) ==
  LET nd == W.node[n]
      W1 == [W EXCEPT !.node[n].policies = @ + 1]
  IN
  IF Bit(nd.config.chainType, AUTO_DELETE) THEN deleteNode(W1, nd.host, n)
  ELSE IF Bit(nd.config.chainType, PERSISTANT) THEN W1
  ELSE notify(W1, n, NODE_PENDING_DELETION)

\* Node.moveToNextNode, the deletion policy after the hand-off.
deletionPolicy(W, n) ==
  LET nd == W.node[n]
      W1 == [W EXCEPT !.node[n].policies = @ + 1]
  IN
  IF Bit(nd.config.chainType, PERSISTANT) THEN W1
  ELSE IF Bit(nd.config.chainType, AUTO_DELETE) THEN deleteNode(W1, nd.host, n)
  ELSE notify(W1, n, NODE_PENDING_DELETION)

\* History of Node.moveToNextNode: the hand-off action it takes.
handOff(W, n, kind, id, targetId, data) ==
  [W EXCEPT !.node[n].handoffs = @ + 1,
            !.node[n].lastHandoff =
               <<[kind |-> kind, id |-> id, targetId |-> targetId, data |-> data]>>]

\* Node.moveToNextNode up to its first real wait.
moveToNextNode(W, n, data) ==
  LET nd == W.node[n]
      nx == nd.nextNodeInfo
  IN
  IF n \notin W.nodes[nd.host] THEN endExecution(W, n)
  ELSE IF nx = <<>>
  THEN endExecution(deletionPolicy(
         IF nd.reporting
         THEN notify(handOff(W, n, NODE_END_OF_PIPELINE, 0, "", Undefined),
                     n, NODE_END_OF_PIPELINE)
         ELSE W, n), n)
  ELSE IF nx[1].type = TypeLocal THEN
    LET W0 == handOff(W, n, NODE_RUN, nx[1].id, "", data) IN
    IF nx[1].id \in W.nodes[nd.host]
    THEN LET W1 == runNode(W0, nd.host, nx[1].id, data)
         IN [W1 EXCEPT !.node[n].pc = "awaitNext",
                       !.node[n].wait = <<nx[1].id, W1.node[nx[1].id].enq>>]
    ELSE endExecution(deletionPolicy(runNode(W0, nd.host, nx[1].id, data), n), n)
  ELSE
    endExecution(deletionPolicy(
      remoteServiceCallback(handOff(W, n, RemoteServiceCallback, 0, nx[1].targetId, data),
                            nd.config.chainId, nx[1].targetId, data), n), n)

\* Node.terminate
terminate(W, n) ==
  LET out == W.node[n].output
      data == IF out = <<>> THEN Undefined ELSE out[1]
  IN moveToNextNode([W EXCEPT !.node[n].forwarded = <<data>>], n, data)

\* Node.processBatch: every pipeline of the batch at the generator cursor starts
\* (the setImmediate turn is not a step of its own: nothing can tell it apart
\* from the pipelines being slow).
processBatch(W, n) ==
  LET nd == W.node[n]
      batch == getPipelineGenerator(nd.pipelines, BatchSize, nd.cursor)
  IN [W EXCEPT !.node[n].pc = "running",
               !.node[n].inflight =
                  @ \cup { [ex |-> nd.cur[1].id, p |-> p, data |-> nd.cur[1].data]
                           : p \in batch }]

\* A variant of complete that hands off without recording NODE_COMPLETED.
completeUnrecorded(W, n) ==
  terminate(clearSuspendedState([W EXCEPT !.node[n].last = W.node[n].cur], n), n)

\* Node.execute lines 357-360: the generator is exhausted, or the node resumed.
complete(W, n) ==
  terminate(updateStatus(clearSuspendedState(
              [W EXCEPT !.node[n].last = W.node[n].cur], n), n, NODE_COMPLETED), n)

\* Node.execute lines 362-368: the catch block.
catch(W, n) ==
  IF ~isSuspended(W, n)
  THEN endExecution(updateStatus(clearSuspendedState(W, n), n, NODE_FAILED), n)
  ELSE endExecution(W, n)

\* A variant of beginWork whose resume branch adds the wrapper to the output the
\* earlier batches left.
beginWorkAppending(W, n, ex) ==
  LET W1 == updateStatus([W EXCEPT !.node[n].cur = <<ex>>], n, NODE_IN_PROGRESS)
      nd == W1.node[n]
  IN
  IF ~ex.isResuming THEN
    IF getPipelineGenerator(nd.pipelines, BatchSize, 0) = {}
    THEN complete([W1 EXCEPT !.node[n].cursor = 0], n)
    ELSE processBatch([W1 EXCEPT !.node[n].cursor = 0], n)
  ELSE
    complete([W1 EXCEPT !.node[n].output =
                           Append(@, ResumedOutput(ex.suspendedState[1].data)),
                        !.node[n].resumedRuns = @ + 1], n)

\* Node.execute lines 322-336: status change, then the first batch or the resume.
beginWork(W, n, ex) ==
  LET W1 == updateStatus([W EXCEPT !.node[n].cur = <<ex>>], n, NODE_IN_PROGRESS)
      nd == W1.node[n]
  IN
  IF ~ex.isResuming THEN
    IF getPipelineGenerator(nd.pipelines, BatchSize, 0) = {}
    THEN complete([W1 EXCEPT !.node[n].cursor = 0], n)
    ELSE processBatch([W1 EXCEPT !.node[n].cursor = 0], n)
  ELSE
    complete([W1 EXCEPT !.node[n].output =
                           <<ResumedOutput(ex.suspendedState[1].data)>>,
                        !.node[n].resumedRuns = @ + 1], n)

\* NodeStatusManager: one queued signal is applied.
handleSignal(W, n, sig) ==
  LET nd == W.node[n] IN
  IF sig = NODE_SUSPEND THEN [W EXCEPT !.node[n].smStatus = @ \cup {NODE_SUSPENDED}]
  ELSE IF sig = NODE_RESUME /\ nd.suspendedState # <<>> THEN
    LET data == IF nd.resumePayload # <<>> THEN nd.resumePayload[1]
                ELSE nd.suspendedState[1].data
        W1 == [W EXCEPT !.node[n].smStatus = @ \ {NODE_SUSPENDED},
                        !.node[n].suspendedState[1].data = data,
                        !.node[n].resumePayload = <<>>,
                        !.node[n].resumes = @ + 1]
    IN execute(W1, n, data)
  ELSE W

\* NodeStatusManager.process: drain the queue in FIFO order.
RECURSIVE process(_, _)
process(W, n) ==
  IF W.node[n].signalQueue = <<>> THEN W
  ELSE process(handleSignal([W EXCEPT !.node[n].signalQueue = Tail(@)], n,
                            Head(W.node[n].signalQueue)), n)

\* NodeStatusManager.enqueueSignals(signals, resumePayload)
enqueueSignals(W, n, sigs, payload) ==
  LET W1 == [W EXCEPT !.node[n].signalQueue = @ \o sigs,
                      !.node[n].resumePayload = IF payload # <<>> THEN payload ELSE @]
  IN IF sigs # <<>> /\ sigs[1] = NODE_RESUME THEN process(W1, n) ELSE W1

\* A variant of checkpoint that does not drain the signal queue after the last
\* batch.
checkpointSkippingLast(W, n) ==
  LET nd == W.node[n]
      cursor == nd.cursor + BatchSize
      nextBatch == getPipelineGenerator(nd.pipelines, BatchSize, cursor)
      W0 == [W EXCEPT !.node[n].cursor = cursor]
      W1 == process(W0, n)
  IN
  IF nextBatch = {} THEN complete(W0, n)
  ELSE IF isSuspended(W1, n)
  THEN endExecution(suspendExecution(W1, n, cursor, nextBatch, nd.cur[1].data), n)
  ELSE processBatch(W1, n)

\* Node.execute lines 335-351: the batch is joined; next batch, suspend or finish.
checkpoint(W, n) ==
  LET nd == W.node[n]
      cursor == nd.cursor + BatchSize
      nextBatch == getPipelineGenerator(nd.pipelines, BatchSize, cursor)
      W1 == process([W EXCEPT !.node[n].cursor = cursor], n)
  IN
  IF isSuspended(W1, n)
  THEN endExecution(suspendExecution(W1, n, cursor, nextBatch, nd.cur[1].data), n)
  ELSE IF nextBatch = {} THEN complete(W1, n)
  ELSE processBatch(W1, n)

\* Is e a pipeline of the batch the running execution of n is waiting for?
InCurrentBatch(W, n, e) ==
  LET nd == W.node[n] IN
  nd.cur # <<>> /\ nd.pc = "running" /\ nd.cur[1].id = e.ex

\* A variant of pipelineResolved whose checkpoint does not wait for the rest of
\* the batch.
pipelineResolvedUnjoined(W, n, e) ==
  LET nd == W.node[n]
      W1 == updateProgress(
              [W EXCEPT !.node[n].output =
                          Append(@, processPipeline(nd.pipelines[e.p], e.data)),
                        !.node[n].inflight = @ \ {e},
                        !.node[n].cur = IF InCurrentBatch(W, n, e)
                                        THEN <<[@[1] EXCEPT !.pushed = @ + 1]>> ELSE @],
              n)
  IN
  IF InCurrentBatch(W, n, e) THEN checkpoint(W1, n) ELSE W1

\* Node.processBatch lines 393-398: a pipeline resolves, its output is pushed.
pipelineResolved(W, n, e) ==
  LET nd == W.node[n]
      W1 == updateProgress(
              [W EXCEPT !.node[n].output =
                          Append(@, processPipeline(nd.pipelines[e.p], e.data)),
                        !.node[n].inflight = @ \ {e},
                        !.node[n].cur = IF InCurrentBatch(W, n, e)
                                        THEN <<[@[1] EXCEPT !.pushed = @ + 1]>> ELSE @],
              n)
  IN
  IF InCurrentBatch(W, n, e) /\ \A f \in nd.inflight \ {e} : f.ex # e.ex
  THEN checkpoint(W1, n)
  ELSE W1

\* Node.processBatch lines 400-404: a pipeline rejects, Promise.all rejects at once.
pipelineRejected(W, n, e) ==
  LET W1 == [W EXCEPT !.node[n].inflight = @ \ {e}]
  IN IF InCurrentBatch(W, n, e) THEN catch(W1, n) ELSE W1

\* NodeSupervisor.createNode with Node.setConfig: the reporting agent is built
\* only for a config that carries index and count.
createNode(W, h, config) ==
  LET id == W.nextId
      W1 == [W EXCEPT !.node[id] =
                        [NewNode EXCEPT !.created = TRUE, !.host = h, !.config = config,
                                        !.reporting = config.index # -1 /\ config.count # -1],
                      !.nodes[h] = @ \cup {id},
                      !.nextId = @ + 1]
  IN IF config.signalQueue # <<>>
     THEN enqueueSignals(W1, id, config.signalQueue, <<>>)
     ELSE W1

\* NodeSupervisor.addProcessors -> Node.addPipeline
addProcessors(W, h, id, processors) ==
  IF id \in W.nodes[h]
  THEN [W EXCEPT !.node[id].pipelines = Append(@, processors)]
  ELSE W

\* ------------------------------------------------ NodeSupervisor.ts, chains
\* Node.setNextNodeInfo
setNextNodeInfo(W, n, type, id, targetId) ==
  [W EXCEPT !.node[n].nextNodeInfo = <<[type |-> type, id |-> id, targetId |-> targetId]>>]

\* NodeSupervisor.createChain: the relation is stored, then index, count and the
\* first entry's monitoringHost are written into every entry of the config.  An
\* empty array is stored before reading its first entry throws.
createChain(W, h, config) ==
  LET chainId == ChainNames[W.nextChain]
      items == config.items
      monitoringHost == IF items[1].rootConfig # <<>>
                        THEN items[1].rootConfig[1].monitoringHost
                        ELSE items[1].monitoringHost
      filled == [i \in 1..Len(items) |->
                   [items[i] EXCEPT !.index = i - 1, !.count = Len(items),
                                    !.monitoringHost = monitoringHost]]
      W1 == [W EXCEPT !.chains[h][chainId] = <<NewRelation(filled)>>,
                      !.nextChain = @ + 1]
  IN IF ~config.defined \/ ~config.isArray THEN [W EXCEPT !.thrown = TRUE]
     ELSE IF items = <<>> THEN [W1 EXCEPT !.thrown = TRUE]
     ELSE W1

\* NodeSupervisor.updateChain
updateChain(W, h, config) ==
  LET chainId == config[1].chainId IN
  IF W.chains[h][chainId] # <<>>
  THEN [W EXCEPT !.chains[h][chainId][1].config = @ \o config]
  ELSE [W EXCEPT !.chains[h][chainId] = <<NewRelation(config)>>]

\* A variant of setupNode that asks for no monitoringHost.
setupNodeUnmonitored(W, h, config, initiator) ==
  LET id == W.nextId
      W1 == createNode(updateChain(W, h, <<config>>), h, config)
      W2 == addProcessors(W1, h, id, config.services)
      W3 == IF config.nextTargetId # <<>>
            THEN setNextNodeInfo(W2, id, TypeRemote, 0, config.nextTargetId[1])
            ELSE W2
  IN notify(W3, id, NODE_SETUP_COMPLETED)

\* NodeSupervisor.setupNode; the new node's id is W.nextId.  setRemoteMonitoringHost
\* throws for a config without monitoringHost, after the node was created.
setupNode(W, h, config, initiator) ==
  LET id == W.nextId
      W1 == createNode(updateChain(W, h, <<config>>), h, config)
      W2 == addProcessors(W1, h, id, config.services)
      W3 == IF config.nextTargetId # <<>>
            THEN setNextNodeInfo(W2, id, TypeRemote, 0, config.nextTargetId[1])
            ELSE W2
  IN IF config.monitoringHost = "" THEN [W1 EXCEPT !.thrown = TRUE]
     ELSE notify(W3, id, NODE_SETUP_COMPLETED)

SelectSeq2(seq, loc) == SelectSeq(seq, LAMBDA c : c.location = loc)

\* A variant of setupLocalNodes that links no node to the next.
RECURSIVE setupLocalNodesUnlinked(_, _, _, _, _)
setupLocalNodesUnlinked(W, h, chainId, localConfigs, prevNodeId) ==
  IF localConfigs = <<>> THEN W
  ELSE
    LET id == W.nextId
        \* what follows the awaited setupNode, whose error is thrown on
        then(W1) ==
          IF W1.thrown THEN W1
          ELSE setupLocalNodesUnlinked(
                 IF prevNodeId = 0
                 THEN [W1 EXCEPT !.chains[h][chainId][1].rootNodeId = <<id>>]
                 ELSE W1,
                 h, chainId, Tail(localConfigs), id)
    IN then(setupNode(W, h, [Head(localConfigs) EXCEPT !.chainId = chainId], TRUE))

\* NodeSupervisor.prepareChainDistribution lines 566-587: the local nodes are set
\* up in config order and each one is linked to the next.
RECURSIVE setupLocalNodes(_, _, _, _, _)
setupLocalNodes(W, h, chainId, localConfigs, prevNodeId) ==
  IF localConfigs = <<>> THEN W
  ELSE
    LET id == W.nextId
        \* what follows the awaited setupNode, whose error is thrown on
        then(W1) ==
          IF W1.thrown THEN W1
          ELSE setupLocalNodes(
                 IF prevNodeId = 0
                 THEN [W1 EXCEPT !.chains[h][chainId][1].rootNodeId = <<id>>]
                 ELSE setNextNodeInfo(W1, prevNodeId, TypeLocal, id, ""),
                 h, chainId, Tail(localConfigs), id)
    IN then(setupNode(W, h, [Head(localConfigs) EXCEPT !.chainId = chainId], TRUE))

\* A variant of updatedRemoteConfigs that leaves the remote configs as they are.
updatedRemoteConfigsAsGiven(remoteConfigs) == remoteConfigs

\* NodeSupervisor.prepareChainDistribution lines 614-637: every remote config is
\* told the first service of the remote config that follows it.
updatedRemoteConfigs(remoteConfigs) ==
  [i \in 1..Len(remoteConfigs) |->
     [remoteConfigs[i] EXCEPT !.nextTargetId =
        IF i < Len(remoteConfigs) /\ remoteConfigs[i + 1].services # <<>>
        THEN <<remoteConfigs[i + 1].services[1]>> ELSE <<>>]]

\* A variant of broadcastNodeSetupSignal that posts every setup a second time.
RECURSIVE broadcastNodeSetupSignalTwice(_, _, _)
broadcastNodeSetupSignalTwice(W, chainId, remoteConfigs) ==
  IF remoteConfigs = <<>> THEN W
  ELSE
    LET c == Head(remoteConfigs)
        m == Msg("setup", HostOf(c.services[1]), chainId, "", Undefined, c)
        W1 == IF c.services = <<>> THEN W
              ELSE [W EXCEPT !.net = Append(Append(@, m), m)]
    IN broadcastNodeSetupSignalTwice(W1, chainId, Tail(remoteConfigs))

\* NodeSupervisor.broadcastNodeSetupSignal with Ext.broadcastSetupCallback: one
\* post per remote config, to the host of its first service.
RECURSIVE broadcastNodeSetupSignal(_, _, _)
broadcastNodeSetupSignal(W, chainId, remoteConfigs) ==
  IF remoteConfigs = <<>> THEN W
  ELSE
    LET c == Head(remoteConfigs)
        W1 == IF c.services = <<>> THEN W
              ELSE [W EXCEPT !.net = Append(@,
                      Msg("setup", HostOf(c.services[1]), chainId, "", Undefined, c))]
    IN broadcastNodeSetupSignal(W1, chainId, Tail(remoteConfigs))

\* NodeSupervisor.prepareChainDistribution
prepareChainDistribution(W, h, chainId) ==
  LET chainConfig == W.chains[h][chainId][1].config
      localConfigs == SelectSeq2(chainConfig, LocLocal)
      remoteConfigs == SelectSeq2(chainConfig, LocRemote)
      \* what follows the local setups, whose error is thrown on; the last
      \* local node is the one created last
      then(W1) ==
        IF W1.thrown THEN W1
        ELSE broadcastNodeSetupSignal(
               IF localConfigs # <<>> /\ remoteConfigs # <<>>
                  /\ remoteConfigs[1].services # <<>>
               THEN setNextNodeInfo(W1, W1.nextId - 1, TypeRemote, 0,
                                    remoteConfigs[1].services[1])
               ELSE W1,
               chainId, updatedRemoteConfigs(remoteConfigs))
  IN then(setupLocalNodes(W, h, chainId, localConfigs, 0))

\* How often does the sequence hold x?
Count(seq, x) == Cardinality({ i \in 1..Len(seq) : seq[i] = x })

\* NodeSupervisor.localReport: the supervisor's own reporting agent.  The nodes
\* that have reported NODE_SETUP_COMPLETED by then are noted (history).
localReport(W, status, chainId) ==
  [W EXCEPT !.reports = Append(@,
     [chainId |-> chainId, status |-> status,
      setups |-> { n \in NodeIds : Count(W.node[n].notified, NODE_SETUP_COMPLETED) > 0 }])]

\* NodeSupervisor.deployChain: every error is thrown on to the caller.
\* parentChainId is <<>> if the caller passes none.
deployChain(W, h, config, data, parentChainId) ==
  LET chainId == ChainNames[W.nextChain]
      registered(W2) ==
        IF parentChainId # <<>>
        THEN [W2 EXCEPT !.childChains[h][parentChainId[1]] = Append(@, chainId)]
        ELSE W2
      deployed(W1) ==
        IF W1.thrown THEN W1
        ELSE localReport(
               registered([W1 EXCEPT !.chains[h][chainId][1].dataRef = <<data>>]),
               CHAIN_DEPLOYED, chainId)
      created(W0) ==
        IF W0.thrown THEN W0
        ELSE deployed(prepareChainDistribution(W0, h, chainId))
  IN IF ~config.defined THEN [W EXCEPT !.thrown = TRUE]
     ELSE created(createChain(W, h, config))

\* NodeSupervisor.handleRequest, case CHAIN_DEPLOY: the payload's config and data
\* are passed on, and nothing else.
handleDeploy(W, h, config, data) == deployChain(W, h, config, data, <<>>)

\* NodeSupervisor.startChain
startChain(W, h, chainId, data) ==
  LET chain == W.chains[h][chainId] IN
  IF chain = <<>> THEN W
  ELSE IF chain[1].rootNodeId = <<>> THEN W
  ELSE runNode(W, h, chain[1].rootNodeId[1], data)

\* NodeSupervisor.notify: the node is notified if it is registered.
supervisorNotify(W, h, nodeId, status) ==
  IF nodeId \in W.nodes[h] THEN notify(W, nodeId, status) ELSE W

\* The promise of startChain resolves with execution `ticket` of the root node,
\* at once (ticket 0) if it ran no node.
TicketOf(W, h, chainId) ==
  LET chain == W.chains[h][chainId] IN
  IF chain = <<>> THEN 0
  ELSE IF chain[1].rootNodeId = <<>> THEN 0
  ELSE IF chain[1].rootNodeId[1] \notin W.nodes[h] THEN 0
  ELSE W.node[chain[1].rootNodeId[1]].enq + 1

\* NodeSupervisor.startPendingChain up to its first wait: the call returns at
\* once in parallel mode, and after the awaited startChain otherwise.
startPendingChain(W, h, chainId) ==
  LET chain == W.chains[h][chainId]
      data == IF chain = <<>> THEN <<>> ELSE chain[1].dataRef
      rootConfig == IF chain = <<>> \/ chain[1].config = <<>> THEN <<>>
                    ELSE chain[1].config[1].rootConfig
      ticket == TicketOf(W, h, chainId)
      await(W1, mode) ==
        IF chain = <<>> THEN W1
        ELSE [W1 EXCEPT !.chains[h][chainId][1].pendingStarts =
                           Append(@, [mode |-> mode, ticket |-> ticket]),
                        !.chains[h][chainId][1].returned =
                           IF mode = "parallel" THEN @ + 1 ELSE @]
  IN
  IF data # <<>> /\ data[1] # Undefined THEN
    IF rootConfig # <<>> THEN
      IF chain[1].rootNodeId = <<>> THEN [W EXCEPT !.thrown = TRUE]
      ELSE IF rootConfig[1].childMode = "parallel"
      THEN await(startChain(supervisorNotify(W, h, chain[1].rootNodeId[1],
                                             CHILD_CHAIN_STARTED),
                            h, chainId, data[1]), "parallel")
      ELSE await(startChain(W, h, chainId, Undefined), "serial")
    ELSE await(startChain(W, h, chainId, data[1]), "plain")
  ELSE await(startChain(W, h, chainId, Undefined), "plain")

\* NodeSupervisor.startPendingChain after the startChain it awaits has resolved:
\* a child chain's completion is notified.
afterStartChain(W, h, chainId, i) ==
  LET chain == W.chains[h][chainId][1]
      p == chain.pendingStarts[i]
      W1 == [W EXCEPT !.chains[h][chainId][1].pendingStarts =
                         SubSeq(@, 1, i - 1) \o SubSeq(@, i + 1, Len(@)),
                      !.chains[h][chainId][1].returned =
                         IF p.mode = "parallel" THEN @ ELSE @ + 1]
  IN IF p.mode = "plain" THEN W1
     ELSE supervisorNotify(W1, h, chain.rootNodeId[1], CHILD_CHAIN_COMPLETED)

\* NodeSupervisor.getNodesByServiceAndChain, in registry (insertion) order.
getNodesByServiceAndChain(W, h, serviceUid, chainId) ==
  { n \in W.nodes[h] :
      /\ W.node[n].config.chainId = chainId
      /\ \E i \in 1..Len(W.node[n].config.services) :
            W.node[n].config.services[i] = serviceUid }

Min(S) == CHOOSE x \in S : \A y \in S : x <= y

\* A variant of runNodeByRelation without the tests for undefined fields.
runNodeByRelationUnchecked(W, h, targetId, chainId, data) ==
  LET found == getNodesByServiceAndChain(W, h, targetId, chainId) IN
  IF found = {} THEN W ELSE runNode(W, h, Min(found), data)

\* NodeSupervisor.runNodeByRelation: every error it throws is caught inside.
runNodeByRelation(W, h, targetId, chainId, data) ==
  LET found == getNodesByServiceAndChain(W, h, targetId, chainId) IN
  IF chainId = NoChain \/ targetId = "" THEN W
  ELSE IF found = {} THEN W
  ELSE runNode(W, h, Min(found), data)

\* The lists over S of length at most n.
RECURSIVE SeqsUpTo(_, _)
SeqsUpTo(S, n) ==
  IF n = 0 THEN {<<>>}
  ELSE LET shorter == SeqsUpTo(S, n - 1)
       IN shorter \cup { Append(q, x) : q \in shorter, x \in S }

\* ----------------------------------------------------------------- actions
ChainTypes == {0, PERSISTANT, AUTO_DELETE}
AllChainTypes == ChainTypes \cup {PERSISTANT + AUTO_DELETE}
\* The signals sent from outside: a resume payload travels with NODE_RESUME.
Signals == {<<NODE_SUSPEND, <<>> >>, <<NODE_RESUME, <<>> >>, <<NODE_RESUME, << <<"d9">> >> >>}

\* The data of the k-th request: the requests carry distinct items.
DataOf(k) == IF k % 2 = 0 THEN <<"d1">> ELSE <<"d2">>

\* The nodes created by NODE_CREATE, which belong to no chain.
StandAlone == { n \in NodeIds : node[n].created /\ node[n].config.chainId = NoChain }

\* The nodes and chains are set up before the first request to run or signal
\* one: so far every request has created a node or deployed a chain.
SetupPhase ==
  /\ ops = (IF \E n \in NodeIds : node[n].created /\ node[n].config.chainId = NoChain
            THEN 1 ELSE 0) + (nextChain - 1)
  /\ \A n \in NodeIds : node[n].enq = 0

\* handleRequest NODE_CREATE.  One stand-alone node is studied at a time: nodes
\* share nothing but the registry.
NodeCreate(h, config) ==
  /\ SetupPhase
  /\ ops < MaxOps
  /\ \A n \in NodeIds : ~node[n].created
  /\ ops' = ops + 1
  /\ UNCHANGED throws
  /\ Commit(createNode(World, h, config))

\* The params of a NODE_CREATE request: with index and count, or without.
NodeCfg(chainType, signalQueue, indexed) ==
  [NoConfig EXCEPT !.chainType = chainType, !.signalQueue = signalQueue,
                   !.index = IF indexed THEN 0 ELSE -1,
                   !.count = IF indexed THEN 1 ELSE -1]

\* The processors of the k-th pipeline added to a stand-alone node: the first
\* pipeline differs from the others, so the order of the outputs shows.
PipelineAt(k) == IF k = 1 THEN <<SvcA>> ELSE <<SvcB>>

\* addProcessors on the stand-alone node, before chains are deployed
AddProcessors(h, id, processors) ==
  /\ SetupPhase
  /\ id \in nodes[h]
  /\ id = nextId - 1
  /\ id \in StandAlone
  /\ Len(node[id].pipelines) < MaxPipelines
  /\ Commit(addProcessors(World, h, id, processors))
  /\ UNCHANGED <<ops, throws>>

\* handleRequest NODE_RUN from outside
NodeRun(h, id) ==
  /\ ops < MaxOps
  /\ node[id].created
  /\ ops' = ops + 1
  /\ UNCHANGED throws
  /\ Commit(runNode(World, h, id, DataOf(ops)))

\* handleRequest NODE_DELETE from outside
NodeDelete(h, id) ==
  /\ ops < MaxOps
  /\ node[id].created
  /\ ops' = ops + 1
  /\ UNCHANGED throws
  /\ Commit(deleteNode(World, h, id))

\* NodeSupervisor.enqueueSignals(nodeId, [signal], resumePayload)
EnqueueSignals(h, id, sig, payload) ==
  /\ ops < MaxOps
  /\ id \in nodes[h]
  /\ ops' = ops + 1
  /\ UNCHANGED throws
  /\ Commit(enqueueSignals(World, id, <<sig>>, payload))

\* The execution queue runs the next chained execution.
StartWork(n) ==
  /\ node[n].pc = "idle"
  /\ node[n].queue # <<>>
  /\ Commit(beginWork([World EXCEPT !.node[n].queue = Tail(@)], n, Head(node[n].queue)))
  /\ UNCHANGED <<ops, throws>>

\* A processor callback chain of one pipeline returns.
PipelineResolves(n) ==
  \E e \in node[n].inflight :
    /\ Commit(pipelineResolved(World, n, e))
    /\ UNCHANGED <<ops, throws>>

\* A processor callback of one pipeline throws.
PipelineRejects(n) ==
  \E e \in node[n].inflight :
    /\ throws < MaxThrows
    /\ throws' = throws + 1
    /\ Commit(pipelineRejected(World, n, e))
    /\ UNCHANGED ops

\* Node.moveToNextNode resumes after the awaited NODE_RUN of the next node.
AfterNext(n) ==
  /\ node[n].pc = "awaitNext"
  /\ node[node[n].wait[1]].fin >= node[n].wait[2]
  /\ Commit(endExecution(deletionPolicy(World, n), n))
  /\ UNCHANGED <<ops, throws>>

\* A chain configuration entry.
Cfg(location, service, chainType) ==
  [NoConfig EXCEPT !.location = location, !.services = <<service>>,
                   !.chainType = chainType, !.monitoringHost = "monitor"]

\* The chain configurations submitted: two local nodes, alone, followed by a
\* remote one, or with a remote one between them.
ChainConfigsOf(types) ==
  { <<Cfg(LocLocal, SvcA, t), Cfg(LocLocal, SvcB, t)>> : t \in types } \cup
  { <<Cfg(LocLocal, SvcA, t), Cfg(LocLocal, SvcB, t), Cfg(LocRemote, SvcC, t)>> :
      t \in types } \cup
  { <<Cfg(LocLocal, SvcA, t), Cfg(LocRemote, SvcC, t), Cfg(LocLocal, SvcB, t)>> :
      t \in types }
\* The same chains with a root that is told to suspend from its config.
SuspendingRoot(configs) ==
  { [config EXCEPT ![1].signalQueue = <<NODE_SUSPEND>>] : config \in configs }
ChainConfigs == ChainConfigsOf(ChainTypes) \cup SuspendingRoot(ChainConfigsOf(ChainTypes))

\* The nodes the chains deployed so far have or will have once set up.
RECURSIVE SumLen(_)
SumLen(S) ==
  IF S = {} THEN 0
  ELSE LET c == CHOOSE x \in S : TRUE
       IN Len(chains["h1"][c][1].config) + SumLen(S \ {c})
NodesOfChains == SumLen({ c \in ChainIds : chains["h1"][c] # <<>> })

\* handleRequest CHAIN_DEPLOY
ChainDeploy(h, config) ==
  /\ SetupPhase
  /\ ops < MaxOps
  /\ nextChain <= MaxChains
  /\ Cardinality(StandAlone) + NodesOfChains + Len(config) <= MaxNodes
  /\ ops' = ops + 1
  /\ UNCHANGED throws
  /\ LET W == handleDeploy(World, h, JsArray(config), DataOf(ops))
     IN /\ Apply(W)
        /\ reply' = Reply(ops', W.thrown,
                          IF W.thrown THEN <<>> ELSE <<ChainNames[nextChain]>>)

\* handleRequest CHAIN_START
ChainStart(h, chainId) ==
  /\ ops < MaxOps
  /\ chains[h][chainId] # <<>>
  /\ ops' = ops + 1
  /\ UNCHANGED throws
  /\ Commit(startChain(World, h, chainId, DataOf(ops)))

\* A message arrives: /node/communicate/setup or /node/communicate/run.
Deliver(i) ==
  LET m == net[i]
      W == [World EXCEPT !.net = SubSeq(net, 1, i - 1) \o SubSeq(net, i + 1, Len(net))]
  IN
  /\ Commit(IF m.kind = "setup"
            THEN setupNode(W, m.to, [m.config EXCEPT !.chainId = m.chainId], FALSE)
            ELSE runNodeByRelation(W, m.to, m.targetId, m.chainId, m.data))
  /\ UNCHANGED <<ops, throws>>

Next ==
  \/ \E t \in ChainTypes, q \in {<<>>, <<NODE_SUSPEND>>} :
        NodeCreate("h1", NodeCfg(t, q, FALSE))
  \/ \E id \in NodeIds : AddProcessors("h1", id, PipelineAt(Len(node[id].pipelines) + 1))
  \/ \E id \in NodeIds : NodeRun("h1", id)
  \/ \E id \in NodeIds : NodeDelete("h1", id)
  \/ \E id \in NodeIds, sig \in Signals :
        EnqueueSignals("h1", id, sig[1], sig[2])
  \/ \E n \in NodeIds : StartWork(n)
  \/ \E n \in NodeIds : PipelineResolves(n)
  \/ \E n \in NodeIds : PipelineRejects(n)

Spec == Init /\ [][Next]_vars

\* A chain is deployed and run from its root; hosts exchange setup and run messages.
NextChain ==
  \/ \E config \in ChainConfigs : ChainDeploy("h1", config)
  \/ \E c \in ChainIds : ChainStart("h1", c)
  \/ \E i \in 1..Len(net) : Deliver(i)
  \/ \E id \in NodeIds, sig \in Signals :
        EnqueueSignals(node[id].host, id, sig[1], sig[2])
  \/ \E n \in NodeIds : StartWork(n)
  \/ \E n \in NodeIds : PipelineResolves(n)
  \/ \E n \in NodeIds : PipelineRejects(n)
  \/ \E n \in NodeIds : AfterNext(n)

SpecChain == Init /\ [][NextChain]_vars

\* A payload posted to /node/communicate/run from outside; "" and NoChain stand
\* for an undefined targetId and chainId.
CommunicateRun(h, targetId, chainId) ==
  /\ ops < MaxOps
  /\ ops' = ops + 1
  /\ UNCHANGED throws
  /\ Commit(runNodeByRelation(World, h, targetId, chainId, DataOf(ops)))

\* Chains without failures or signals, and a stand-alone node that serves svcA
\* in no chain, receive run payloads that may match no node.
NextRoute ==
  \/ NodeCreate("h1", [NodeCfg(0, <<>>, FALSE) EXCEPT !.services = <<SvcA>>])
  \/ \E config \in ChainConfigsOf({0, AUTO_DELETE}) : ChainDeploy("h1", config)
  \/ \E c \in ChainIds : ChainStart("h1", c)
  \/ \E i \in 1..Len(net) : Deliver(i)
  \/ \E h \in Hosts, targetId \in {"", SvcA, SvcC}, chainId \in ChainIds \cup {NoChain} :
        CommunicateRun(h, targetId, chainId)
  \/ \E n \in NodeIds : StartWork(n)
  \/ \E n \in NodeIds : PipelineResolves(n)
  \/ \E n \in NodeIds : AfterNext(n)

SpecRoute == Init /\ [][NextRoute]_vars

\* handleRequest CHAIN_DEPLOY with a broadcastSetupCallback that throws: the
\* error is caught in broadcastNodeSetupSignal and nothing is posted.
ChainDeployBroadcastFails(h, config) ==
  /\ SetupPhase
  /\ ops < MaxOps
  /\ nextChain <= MaxChains
  /\ Cardinality(StandAlone) + NodesOfChains + Len(config) <= MaxNodes
  /\ ops' = ops + 1
  /\ UNCHANGED throws
  /\ Apply([handleDeploy(World, h, JsArray(config), DataOf(ops)) EXCEPT !.net = World.net])
  /\ reply' = Reply(ops', FALSE, <<ChainNames[nextChain]>>)

\* The post of a setup request fails on its way: the request never arrives.
SetupLost(i) ==
  /\ net[i].kind = "setup"
  /\ net' = SubSeq(net, 1, i - 1) \o SubSeq(net, i + 1, Len(net))
  /\ UNCHANGED <<node, nodes, nextId, chains, nextChain, ops, throws, pre, reports, reply,
               childChains>>

\* Chains are deployed with a setup broadcast that may fail, at once or on the
\* way, and are run without failures of processors or signals.
NextBroadcast ==
  \/ \E config \in ChainConfigsOf({0, AUTO_DELETE}) : ChainDeploy("h1", config)
  \/ \E config \in ChainConfigsOf({0, AUTO_DELETE}) : ChainDeployBroadcastFails("h1", config)
  \/ \E i \in 1..Len(net) : SetupLost(i)
  \/ \E c \in ChainIds : ChainStart("h1", c)
  \/ \E i \in 1..Len(net) : Deliver(i)
  \/ \E n \in NodeIds : StartWork(n)
  \/ \E n \in NodeIds : PipelineResolves(n)
  \/ \E n \in NodeIds : AfterNext(n)

SpecBroadcast == Init /\ [][NextBroadcast]_vars

\* handleRequest CHAIN_DEPLOY with a payload whose config is not an array.
ChainDeployNoArray(h, config) ==
  /\ SetupPhase
  /\ ops < MaxOps
  /\ nextChain <= MaxChains
  /\ ops' = ops + 1
  /\ UNCHANGED throws
  /\ LET W == handleDeploy(World, h, config, DataOf(ops))
     IN /\ Apply(W)
        /\ reply' = Reply(ops', W.thrown,
                          IF W.thrown THEN <<>> ELSE <<ChainNames[nextChain]>>)

\* The config with the monitoringHost of the entries at I left out.
Hostless(config, I) ==
  [i \in 1..Len(config) |->
     IF i \in I THEN [config[i] EXCEPT !.monitoringHost = ""] ELSE config[i]]

\* The arrays submitted for deployment: the empty one, and chains that begin
\* with a local or with a remote node, with and without monitoringHost in any
\* of their entries.
DeployConfigs ==
  LET whole == ChainConfigsOf({0}) \cup {<<Cfg(LocRemote, SvcC, 0), Cfg(LocLocal, SvcA, 0)>>}
  IN {<<>>} \cup { Hostless(config, I) : config \in whole, I \in SUBSET (1..MaxNodes) }

\* Deployments of valid and invalid configurations, and the runs of the chains
\* that were deployed.
NextDeploy ==
  \/ \E config \in DeployConfigs : ChainDeploy("h1", config)
  \/ \E config \in {JsUndefined, JsObject} : ChainDeployNoArray("h1", config)
  \/ \E c \in ChainIds : ChainStart("h1", c)
  \/ \E i \in 1..Len(net) : Deliver(i)
  \/ \E n \in NodeIds : StartWork(n)
  \/ \E n \in NodeIds : PipelineResolves(n)
  \/ \E n \in NodeIds : AfterNext(n)

SpecDeploy == Init /\ [][NextDeploy]_vars

\* The chains of one to MaxNodes local nodes.
LocalChains(types) ==
  { [i \in 1..n |-> Cfg(LocLocal, IF i % 2 = 1 THEN SvcA ELSE SvcB, t)] :
      n \in 1..MaxNodes, t \in types }

\* Local chains of every chain type are deployed and started; no processor
\* fails and no signal is sent.
NextLocal ==
  \/ \E config \in LocalChains(AllChainTypes) : ChainDeploy("h1", config)
  \/ \E c \in ChainIds : ChainStart("h1", c)
  \/ \E n \in NodeIds : StartWork(n)
  \/ \E n \in NodeIds : PipelineResolves(n)
  \/ \E n \in NodeIds : AfterNext(n)

SpecLocal == Init /\ [][NextLocal]_vars

\* A node whose config holds a chainConfig with a parallel entry is created,
\* given pipelines and run.
NextChild ==
  \/ \E t \in ChainTypes, chainConfig \in {<<"parallel">>, <<"normal", "parallel">>} :
        NodeCreate("h1", [NodeCfg(t, <<>>, TRUE) EXCEPT !.chainConfig = chainConfig])
  \/ \E id \in NodeIds : AddProcessors("h1", id, PipelineAt(Len(node[id].pipelines) + 1))
  \/ \E id \in NodeIds : NodeRun("h1", id)
  \/ \E n \in NodeIds : StartWork(n)
  \/ \E n \in NodeIds : PipelineResolves(n)

SpecChild == Init /\ [][NextChild]_vars

\* handleRequest CHAIN_START_PENDING_OCCURRENCE
ChainStartPending(h, chainId) ==
  /\ ops < MaxOps
  /\ chains[h][chainId] # <<>>
  /\ ops' = ops + 1
  /\ UNCHANGED throws
  /\ Commit(startPendingChain(World, h, chainId))

\* The startChain that a call of startPendingChain awaits has resolved.
AfterStartChain(h, chainId, i) ==
  /\ chains[h][chainId] # <<>>
  /\ i \in 1..Len(chains[h][chainId][1].pendingStarts)
  /\ LET p == chains[h][chainId][1].pendingStarts[i]
     IN p.ticket = 0 \/ node[chains[h][chainId][1].rootNodeId[1]].fin >= p.ticket
  /\ Commit(afterStartChain(World, h, chainId, i))
  /\ UNCHANGED <<ops, throws>>

\* The chain with the rootConfig of a child chain in its first entry.
ChildOf(config, childMode) ==
  [config EXCEPT ![1].rootConfig =
     <<[childMode |-> childMode, monitoringHost |-> "monitor", chainId |-> ParentChain]>>]

\* The chains that wait to be started: plain ones and serial and parallel child
\* chains.
PendingConfigs ==
  LET plain == ChainConfigsOf({0, AUTO_DELETE})
  IN plain \cup { ChildOf(config, childMode) :
                    config \in plain, childMode \in {"normal", "parallel"} }

\* Chains are deployed and then started from the data they were deployed with.
NextPending ==
  \/ \E config \in PendingConfigs : ChainDeploy("h1", config)
  \/ \E c \in ChainIds : ChainStartPending("h1", c)
  \/ \E c \in ChainIds, i \in 1..MaxOps : AfterStartChain("h1", c, i)
  \/ \E i \in 1..Len(net) : Deliver(i)
  \/ \E n \in NodeIds : StartWork(n)
  \/ \E n \in NodeIds : PipelineResolves(n)
  \/ \E n \in NodeIds : AfterNext(n)

SpecPending == Init /\ [][NextPending]_vars

\* The same, with processor callbacks that throw.
NextPendingFail ==
  \/ NextPending
  \/ \E n \in NodeIds : PipelineRejects(n)

SpecPendingFail == Init /\ [][NextPendingFail]_vars

\* The entries a chain is made of: a local node, a local node whose config names
\* a next target of its own, a remote node on the other host, a remote node that
\* resolves to the deploying host, and a remote entry without services.
LinkEntries ==
  { Cfg(LocLocal, SvcA, 0),
    [Cfg(LocLocal, SvcA, 0) EXCEPT !.nextTargetId = <<SvcC>>],
    Cfg(LocRemote, SvcC, 0),
    Cfg(LocRemote, SvcB, 0),
    [Cfg(LocRemote, SvcC, 0) EXCEPT !.services = <<>>] }

\* The chains of one to MaxNodes such entries, in every order, in which no
\* service is served by two remote nodes.
LinkConfigs ==
  { config \in UNION { [1..n -> LinkEntries] : n \in 1..MaxNodes } :
      \A i, j \in 1..Len(config) :
        (/\ i < j
         /\ config[i].location = LocRemote
         /\ config[j].location = LocRemote) => config[i].services # config[j].services }

\* Chains of local and remote nodes in every order are deployed and started
\* once.
NextLink ==
  \/ SetupPhase /\ \E config \in LinkConfigs : ChainDeploy("h1", config)
  \/ \E c \in ChainIds : (\A n \in NodeIds : node[n].enq = 0) /\ ChainStart("h1", c)
  \/ \E i \in 1..Len(net) : Deliver(i)
  \/ \E n \in NodeIds : StartWork(n)
  \/ \E n \in NodeIds : PipelineResolves(n)
  \/ \E n \in NodeIds : AfterNext(n)

SpecLink == Init /\ [][NextLink]_vars

\* Chains in which a service is served by two nodes of the chain: a local node
\* and a remote entry that resolves to the same host, or two remote entries of
\* the other host; and chains without such a service.
LoopConfigs ==
  UNION { { <<Cfg(LocLocal, SvcA, t), Cfg(LocRemote, SvcA, t)>>,
            <<Cfg(LocLocal, SvcA, t), Cfg(LocRemote, SvcC, t), Cfg(LocRemote, SvcC, t)>>,
            <<Cfg(LocLocal, SvcA, t), Cfg(LocLocal, SvcB, t), Cfg(LocRemote, SvcC, t)>> } :
          t \in {0, AUTO_DELETE} }

\* Such chains are deployed and started once; a run message is delivered as
\* long as no node has been executed MaxRuns times.
NextLoop ==
  \/ SetupPhase /\ \E config \in LoopConfigs : ChainDeploy("h1", config)
  \/ \E c \in ChainIds : (\A n \in NodeIds : node[n].enq = 0) /\ ChainStart("h1", c)
  \/ \E i \in 1..Len(net) : (\A n \in NodeIds : node[n].enq < MaxRuns) /\ Deliver(i)
  \/ \E n \in NodeIds : StartWork(n)
  \/ \E n \in NodeIds : PipelineResolves(n)
  \/ \E n \in NodeIds : AfterNext(n)

SpecLoop == Init /\ [][NextLoop]_vars

\* A chain is deployed and started, and a node of it is deleted from outside at
\* any moment of the run.
NextDelete ==
  \/ SetupPhase /\ \E config \in ChainConfigsOf({0, PERSISTANT}) : ChainDeploy("h1", config)
  \/ \E c \in ChainIds : ChainStart("h1", c)
  \/ \E id \in NodeIds : NodeDelete(node[id].host, id)
  \/ \E i \in 1..Len(net) : Deliver(i)
  \/ \E n \in NodeIds : StartWork(n)
  \/ \E n \in NodeIds : PipelineResolves(n)
  \/ \E n \in NodeIds : AfterNext(n)

SpecDelete == Init /\ [][NextDelete]_vars

\* handleRequest CHAIN_PREPARE for a chain the supervisor holds.
ChainPrepare(h, chainId) ==
  /\ ops < MaxOps
  /\ chains[h][chainId] # <<>>
  /\ (nextId - 1) + Len(SelectSeq2(chains[h][chainId][1].config, LocLocal)) <= MaxNodes
  /\ ops' = ops + 1
  /\ UNCHANGED throws
  /\ Commit(prepareChainDistribution(World, h, chainId))

\* Chains of local nodes are deployed, prepared again and started.
NextPrepare ==
  \/ SetupPhase /\ \E config \in LocalChains({0, PERSISTANT}) : ChainDeploy("h1", config)
  \/ \E c \in ChainIds : ChainPrepare("h1", c)
  \/ \E c \in ChainIds : ChainStart("h1", c)
  \/ \E n \in NodeIds : StartWork(n)
  \/ \E n \in NodeIds : PipelineResolves(n)
  \/ \E n \in NodeIds : AfterNext(n)

SpecPrepare == Init /\ [][NextPrepare]_vars

\* Node.execute lines 311-319: preData is merged into the data.
\* preData?.data ?? preData is the data field of preData if it has one.
mergePreData(data, preData) ==
  IF data.additionalData # <<>> /\ Len(data.additionalData[1]) > 0
  THEN [data EXCEPT !.additionalData = <<Append(@[1], preData.name)>>]
  ELSE PipelineData("", << <<IF preData.data # <<>> THEN preData.data[1]
                             ELSE preData.name>> >>, <<data>>)

\* The data an execution with a pre-stage receives and what its pre-stage returns.
PreInputs ==
  { PipelineData(payload, additionalData, <<>>) :
      payload \in {"d1", "d2"},
      additionalData \in {<<>>} \cup { <<l>> : l \in SeqsUpTo({"a1", "a2"}, MaxAdditional) } }
PreDatas ==
  { PreData("undefined", <<>>), PreData("p1", <<>>),
    PreData("p2", <<"x1">>), PreData("p3", <<"x2">>) }

\* An execution of a node with config.pre begins: the pre-stage has returned.
InitPre ==
  /\ InitSupervisor
  /\ pre \in { [data |-> d, preData |-> p, merged |-> <<>>] :
                 d \in PreInputs, p \in PreDatas }

\* Node.execute lines 307-320
PreStage ==
  /\ pre.merged = <<>>
  /\ pre' = [pre EXCEPT !.merged = <<mergePreData(pre.data, pre.preData)>>]
  /\ UNCHANGED <<node, nodes, nextId, chains, nextChain, net, ops, throws, reports, reply,
               childChains>>

SpecPre == InitPre /\ [][PreStage]_vars

\* Nodes of every chain type, either one stand-alone node with or without index
\* and count or the nodes of deployed chains, run without signals or deletions
\* from outside and without failures.
NextPolicy ==
  \/ \E t \in AllChainTypes, indexed \in BOOLEAN :
        NodeCreate("h1", NodeCfg(t, <<>>, indexed))
  \/ \E id \in NodeIds : AddProcessors("h1", id, PipelineAt(Len(node[id].pipelines) + 1))
  \/ \E id \in NodeIds : NodeRun("h1", id)
  \/ StandAlone = {} /\ \E config \in ChainConfigsOf(AllChainTypes) :
                          ChainDeploy("h1", config)
  \/ \E c \in ChainIds : ChainStart("h1", c)
  \/ \E i \in 1..Len(net) : Deliver(i)
  \/ \E n \in NodeIds : StartWork(n)
  \/ \E n \in NodeIds : PipelineResolves(n)
  \/ \E n \in NodeIds : AfterNext(n)

SpecPolicy == Init /\ [][NextPolicy]_vars

\* ------------------------------------------------------------------ claims
Created == { n \in NodeIds : node[n].created }
Started(n) == node[n].transitions # {}

\* The receivers of a's hand-off: the next local node, or the nodes of the
\* target's host that serve the target in a's chain.
Successors(a) ==
  LET nx == node[a].nextNodeInfo IN
  IF nx = <<>> THEN {}
  ELSE IF nx[1].type = TypeLocal THEN {nx[1].id}
  ELSE { b \in Created :
           /\ node[b].host = HostOf(nx[1].targetId)
           /\ node[b].config.chainId = node[a].config.chainId
           /\ \E i \in 1..Len(node[b].config.services) :
                 node[b].config.services[i] = nx[1].targetId }

\* C1: along every hand-off (local NODE_RUN or remote service callback) the
\* successor starts only after its predecessor has completed, so the local nodes
\* of a chain complete in increasing config index order.
C1_HandOffOrder ==
  /\ \A a \in Created : \A b \in Successors(a) :
        Started(b) => node[a].completions > 0
  /\ \A a, b \in Created :
        ( /\ node[a].host = node[b].host
          /\ node[a].config.chainId = node[b].config.chainId
          /\ node[a].config.chainId # NoChain
          /\ node[a].config.index < node[b].config.index
          /\ node[b].completions > 0 ) => node[a].completions > 0

\* C1 witness: a remote receiver has started after a two-node local segment.
C1_Witness ==
  \E a, b, c \in Created :
    /\ node[a].nextNodeInfo # <<>> /\ node[a].nextNodeInfo[1].type = TypeLocal
    /\ node[a].nextNodeInfo[1].id = b
    /\ node[b].nextNodeInfo # <<>> /\ node[b].nextNodeInfo[1].type = TypeRemote
    /\ c \in Successors(b)
    /\ node[b].completions > 0
    /\ Started(c)

\* C2 (as claimed): progress stays within [0,1] (at most pipelines.length steps of
\* 1/pipelines.length) and never decreases while the node is not terminal.
C2_ProgressInUnitInterval ==
  /\ [](\A n \in NodeIds : node[n].progress <= Len(node[n].pipelines))
  /\ [][\A n \in NodeIds :
          node[n].status \in {NODE_COMPLETED, NODE_FAILED}
          \/ node'[n].progress >= node[n].progress]_vars

\* C3 (as claimed): whenever a non-resumed execution completes the node, the
\* output list is as long as the pipeline list.
C3_OutputPerPipeline ==
  [][\A n \in NodeIds :
       (node'[n].completions > node[n].completions /\ ~node'[n].last[1].isResuming)
       => Len(node'[n].output) = Len(node'[n].pipelines)]_vars

\* The outputs of an execution of n on data that is never suspended.
IsPlainOutput(n, out, data) ==
  /\ Len(out) = Len(node[n].pipelines)
  /\ \A p \in 1..Len(node[n].pipelines) :
        \E j \in 1..Len(out) : out[j] = processPipeline(node[n].pipelines[p], data)

\* C4 (as claimed): a node suspended at a batch boundary and resumed with the same
\* data ends with the output of an execution that was never suspended.
C4_SuspendResumeRoundTrip ==
  [][\A n \in NodeIds :
       ( /\ node'[n].completions > node[n].completions
         /\ node'[n].last[1].isResuming
         /\ node'[n].resumes > 0
         /\ node'[n].last[1].data = node'[n].last[1].suspendedState[1].input )
       => IsPlainOutput(n, node'[n].output, node'[n].last[1].data)]_vars

\* C5 (as claimed): NODE_DELETE of a node whose chainType has the PERSISTANT bit
\* leaves the registry unchanged.
C5_PersistentDeleteIsNoOp ==
  [][\A id \in NodeIds :
       (NodeDelete("h1", id) /\ Bit(node[id].config.chainType, PERSISTANT))
       => nodes' = nodes]_vars

\* C6 (as claimed): the work of an execution starts only after every earlier
\* execution of the node has ended, and while it is under way no pipeline of
\* another execution of the node is in flight.
C6_ExecutionsSerialized ==
  \A n \in NodeIds :
    node[n].cur # <<>> =>
      /\ node[n].cur[1].id = node[n].fin + 1
      /\ \A e \in node[n].inflight : e.ex = node[n].cur[1].id

\* C7 (as claimed): at most BatchSize pipelines of a node are in flight, and the
\* pipelines in flight for the running execution are all of one batch.
C7_AtMostOneBatchInFlight ==
  \A n \in NodeIds :
    /\ Cardinality(node[n].inflight) <= BatchSize
    /\ \A e, f \in node[n].inflight :
          e.ex = f.ex => (e.p - 1) \div BatchSize = (f.p - 1) \div BatchSize

Min2(a, b) == IF a < b THEN a ELSE b

\* C8: a suspended state is only ever stashed at a batch boundary: no pipeline of
\* the stashing execution is in flight, and every pipeline of the batches it has
\* started has pushed its output.
C8_SuspendOnlyBetweenBatches ==
  \A n \in NodeIds :
    node[n].suspendedState # <<>> =>
      LET st == node[n].suspendedState[1] IN
      /\ \A e \in node[n].inflight : e.ex # st.by
      /\ st.pushed = Min2(st.cursor, Len(node[n].pipelines))
      /\ st.cursor % BatchSize = 0 /\ st.cursor > 0

\* C8 witness: NODE_SUSPEND arrived while the first batch of a two-batch node was
\* running and the node stashed its state after that batch.
C8_Witness ==
  \E n \in NodeIds :
    /\ node[n].suspendedState # <<>>
    /\ node[n].config.signalQueue = <<>>
    /\ Len(node[n].pipelines) > BatchSize
    /\ node[n].suspendedState[1].pushed = BatchSize
    /\ node[n].status = NODE_IN_PROGRESS

\* C9 (as claimed): the status moves only along the claimed edges; NODE_COMPLETED
\* and NODE_FAILED are terminal.
C9_TerminalStatuses ==
  \A n \in NodeIds :
    node[n].transitions \subseteq
      { <<NODE_PENDING, NODE_IN_PROGRESS>>, <<NODE_IN_PROGRESS, NODE_COMPLETED>>,
        <<NODE_IN_PROGRESS, NODE_SUSPENDED>>, <<NODE_IN_PROGRESS, NODE_FAILED>>,
        <<NODE_SUSPENDED, NODE_IN_PROGRESS>> }

\* C10 (as claimed): an execution takes the resume branch only as the effect of
\* a NODE_RESUME signal.
C10_ResumeOnlyOnSignal ==
  \A n \in NodeIds : node[n].resumedRuns <= node[n].resumes

\* The outputs pushed for the logical run an execution ends: its own, and those
\* of the execution whose suspended state it resumed.
Emitted(ex) ==
  IF ex.isResuming THEN ex.suspendedState[1].pushed + ex.pushed ELSE ex.pushed

\* C11 (as claimed): whenever a node's status becomes NODE_COMPLETED, every one
\* of its pipelines has emitted an output for that run and its progress is 1
\* (pipelines.length steps of 1/pipelines.length, which needs a pipeline).
C11_CompletedOnlyAfterAllOutputs ==
  [][\A n \in NodeIds :
       node'[n].completions > node[n].completions =>
         /\ Emitted(node'[n].last[1]) = Len(node'[n].pipelines)
         /\ Len(node'[n].pipelines) > 0
         /\ node'[n].progress = Len(node'[n].pipelines)]_vars

\* C12 (as claimed): every time an execution sets NODE_COMPLETED exactly one
\* hand-off action follows, selected by nextNodeInfo: NODE_RUN of the next local
\* node with the data, remoteServiceCallback for the remote target with the data,
\* or NODE_END_OF_PIPELINE with nothing forwarded.
C12_ExactlyOneHandOff ==
  [][\A n \in NodeIds :
       node'[n].completions > node[n].completions =>
         /\ node'[n].handoffs = node[n].handoffs + 1
         /\ LET nx == node'[n].nextNodeInfo
                h == node'[n].lastHandoff[1]
                out == node'[n].output
                data == IF out = <<>> THEN Undefined ELSE out[1]
            IN IF nx = <<>>
               THEN h.kind = NODE_END_OF_PIPELINE /\ h.data = Undefined
               ELSE IF nx[1].type = TypeLocal
               THEN h.kind = NODE_RUN /\ h.id = nx[1].id /\ h.data = data
               ELSE /\ h.kind = RemoteServiceCallback
                    /\ h.targetId = nx[1].targetId /\ h.data = data]_vars

\* C13 (as claimed): the value a completing non-resumed execution passes on is
\* the result of the node's first pipeline on that execution's input, whatever
\* the order in which the pipelines finished and whatever ran before.
C13_ForwardsFirstPipeline ==
  [][\A n \in NodeIds :
       ( /\ node'[n].completions > node[n].completions
         /\ ~node'[n].last[1].isResuming
         /\ node'[n].pipelines # <<>> )
       => node'[n].forwarded =
            <<processPipeline(node'[n].pipelines[1], node'[n].last[1].data)>>]_vars

\* C14 (amended): after a hand-off the deletion policy keeps a node whose
\* chainType has the PERSISTANT bit (also with AUTO_DELETE) and emits no deletion
\* signal; otherwise it removes a node whose chainType has the AUTO_DELETE bit
\* from the registry; otherwise the node stays registered, and
\* NODE_PENDING_DELETION is emitted exactly when the node has a reporting agent.
C14_DeletionPolicy ==
  [][\A n \in NodeIds :
       node'[n].policies = node[n].policies + 1 =>
         LET chainType == node[n].config.chainType
             h == node[n].host
         IN IF Bit(chainType, PERSISTANT)
            THEN n \in nodes'[h] /\ node'[n].pendings = node[n].pendings
            ELSE IF Bit(chainType, AUTO_DELETE)
            THEN n \notin nodes'[h] /\ node'[n].pendings = node[n].pendings
            ELSE /\ n \in nodes'[h]
                 /\ node'[n].pendings =
                      node[n].pendings + (IF node[n].reporting THEN 1 ELSE 0)]_vars

\* C14 witness: a node of chain type 0 with a reporting agent has handed off,
\* is still registered and has emitted NODE_PENDING_DELETION.
C14_Witness ==
  \E n \in NodeIds :
    /\ node[n].reporting /\ node[n].config.chainType = 0
    /\ node[n].policies = 1 /\ node[n].pendings = 1
    /\ Count(node[n].notified, NODE_PENDING_DELETION) = 1
    /\ n \in nodes[node[n].host]

\* C14 (as claimed): without the PERSISTANT and AUTO_DELETE bits the policy
\* always emits NODE_PENDING_DELETION.
C14_PendingDeletionAlwaysEmitted ==
  [][\A n \in NodeIds :
       (node'[n].policies = node[n].policies + 1
          /\ ~Bit(node[n].config.chainType, PERSISTANT)
          /\ ~Bit(node[n].config.chainType, AUTO_DELETE)) =>
         /\ n \in nodes'[node[n].host]
         /\ node'[n].pendings = node[n].pendings + 1]_vars

\* C15 (as claimed): when the pre-stage returned preData, the merged data is the
\* input with preData appended to additionalData if the input has an
\* additionalData list, empty or not, and otherwise the fresh value
\* {origin: input, additionalData: [preData]}.
C15_PreStageMerge ==
  (pre.merged # <<>> /\ pre.preData.name # "undefined") =>
    pre.merged[1] =
      IF pre.data.additionalData # <<>>
      THEN [pre.data EXCEPT !.additionalData = <<Append(@[1], pre.preData.name)>>]
      ELSE PipelineData("", << <<pre.preData.name>> >>, <<pre.data>>)

\* C16: an execution that takes the resume branch starts no pipeline; in that
\* step the node's output becomes the single element {data: suspendedState.data,
\* previousNodeParams}, the node goes to NODE_IN_PROGRESS and then to
\* NODE_COMPLETED, the suspended state is cleared, and that element is the value
\* passed on: a node that is still registered hands it to its next hop.
C16_ResumeHandsWrapper ==
  [][\A n \in NodeIds :
       node'[n].resumedRuns = node[n].resumedRuns + 1 =>
         LET ex == node'[n].last[1]
             wrapper == ResumedOutput(ex.suspendedState[1].data)
             nx == node[n].nextNodeInfo
         IN /\ ex.isResuming
            /\ node'[n].inflight = node[n].inflight
            /\ node'[n].output = <<wrapper>>
            /\ node'[n].status = NODE_COMPLETED
            /\ node'[n].completions = node[n].completions + 1
            /\ <<NODE_IN_PROGRESS, NODE_COMPLETED>> \in node'[n].transitions
            /\ (node[n].status # NODE_IN_PROGRESS =>
                  <<node[n].status, NODE_IN_PROGRESS>> \in node'[n].transitions)
            /\ node'[n].suspendedState = <<>>
            /\ node'[n].forwarded = <<wrapper>>
            /\ (n \in nodes[node[n].host] /\ nx # <<>>) =>
                 /\ node'[n].handoffs = node[n].handoffs + 1
                 /\ node'[n].lastHandoff[1].data = wrapper
                 /\ node'[n].lastHandoff[1].kind =
                      IF nx[1].type = TypeLocal THEN NODE_RUN ELSE RemoteServiceCallback]_vars

\* C16 witness: a chain's root, suspended after its batch and resumed by
\* NODE_RESUME, has completed with the wrapper as its only output and its local
\* successor has been run with that wrapper.
C16_Witness ==
  \E n \in NodeIds :
    /\ node[n].resumes = 1 /\ node[n].resumedRuns = 1
    /\ node[n].status = NODE_COMPLETED /\ node[n].suspendedState = <<>>
    /\ node[n].nextNodeInfo # <<>> /\ node[n].nextNodeInfo[1].type = TypeLocal
    /\ node[n].output = <<ResumedOutput(node[n].last[1].suspendedState[1].data)>>
    /\ node[n].lastHandoff[1].kind = NODE_RUN
    /\ LET m == node[n].nextNodeInfo[1].id
       IN node[m].last # <<>> /\ node[m].last[1].data = node[n].output[1]

\* C17 (as claimed): an execution resumed from a state stashed between batches k
\* and k+1 completes having run, with the stashed data, exactly the pipelines
\* after the stashed cursor, and none of the earlier ones.
C17_ResumeContinuesAtCursor ==
  [][\A n \in NodeIds :
       node'[n].resumedRuns = node[n].resumedRuns + 1 =>
         LET ex == node'[n].last[1]
             remaining == { p \in 1..Len(node[n].pipelines) :
                              p > ex.suspendedState[1].cursor }
         IN ex.pushed = Cardinality(remaining)]_vars

\* C18: the signal queue is drained when a batch has been joined, the last one
\* included; if a NODE_SUSPEND is drained after the final batch the execution
\* stashes its state and returns: the node is not set to NODE_COMPLETED and hands
\* nothing off, although every pipeline has pushed its output.
C18_SuspendAfterFinalBatch ==
  [][\A n \in NodeIds :
       (node[n].pc = "running" /\ node'[n].cursor = node[n].cursor + BatchSize) =>
         /\ node'[n].signalQueue = <<>>
         /\ ( /\ node'[n].cursor >= Len(node[n].pipelines)
              /\ \E i \in 1..Len(node[n].signalQueue) :
                    node[n].signalQueue[i] = NODE_SUSPEND ) =>
              /\ node'[n].suspendedState # <<>>
              /\ node'[n].suspendedState[1].by = node[n].cur[1].id
              /\ node'[n].suspendedState[1].batch = {}
              /\ node'[n].suspendedState[1].pushed = Len(node[n].pipelines)
              /\ node'[n].cur = <<>>
              /\ node'[n].status = NODE_IN_PROGRESS
              /\ node'[n].completions = node[n].completions
              /\ node'[n].handoffs = node[n].handoffs
              /\ node'[n].policies = node[n].policies]_vars

\* C18 witness: a node with four pipelines was told to suspend during its second
\* and last batch; it holds four outputs and a stash with no batch left, has
\* never completed and has handed nothing off.
C18_Witness ==
  \E n \in NodeIds :
    /\ Len(node[n].pipelines) = 4 /\ Len(node[n].output) = 4
    /\ node[n].suspendedState # <<>>
    /\ node[n].suspendedState[1].cursor = 2 * BatchSize
    /\ node[n].suspendedState[1].batch = {}
    /\ node[n].pc = "idle" /\ node[n].status = NODE_IN_PROGRESS
    /\ node[n].completions = 0 /\ node[n].handoffs = 0

\* C19 (as claimed): the config stored for a chain by the supervisor that created
\* it stays the submitted list: its index values are 0..count-1 in order, without
\* duplicates, and every entry's count is the length of the stored config.
C19_ChainConfigImmutable ==
  \A c \in ChainIds :
    chains["h1"][c] # <<>> =>
      LET config == chains["h1"][c][1].config
      IN \A i \in 1..Len(config) :
           config[i].index = i - 1 /\ config[i].count = Len(config)

\* C20 (as claimed): when a processor callback of the running batch throws, the
\* node is set to NODE_FAILED with the error stored, the status is reported by a
\* node that has a reporting agent, the execution ends without starting another
\* batch, and nothing is handed off; whatever the suspend mark says.
C20_FailureFailsNode ==
  [][\A n \in NodeIds :
       ( /\ throws' = throws + 1
         /\ node[n].pc = "running"
         /\ \E e \in node[n].inflight \ node'[n].inflight : e.ex = node[n].cur[1].id ) =>
         /\ node'[n].status = NODE_FAILED
         /\ node'[n].error
         /\ node[n].reporting => Count(node'[n].notified, NODE_FAILED) > 0
         /\ node'[n].cur = <<>>
         /\ node'[n].inflight \subseteq node[n].inflight
         /\ node'[n].handoffs = node[n].handoffs
         /\ node'[n].completions = node[n].completions]_vars

\* Does a payload for (targetId, chainId) on host h match no node, or lack a field?
RoutingMiss(h, targetId, chainId) ==
  \/ targetId = "" \/ chainId = NoChain
  \/ getNodesByServiceAndChain(World, h, targetId, chainId) = {}

\* C21: a run payload that matches no node of the host, or that lacks its
\* targetId or chainId, runs no node, changes no node (so no status is set or
\* reported), and leaves the node and chain registries as they were; the
\* handler returns normally.
C21_RoutingMissChangesNothing ==
  [][ /\ \A h \in Hosts, targetId \in {"", SvcA, SvcC}, chainId \in ChainIds \cup {NoChain} :
           (CommunicateRun(h, targetId, chainId) /\ RoutingMiss(h, targetId, chainId)) =>
              UNCHANGED <<node, nodes, nextId, chains, nextChain, net, reports, childChains>>
      /\ \A i \in 1..Len(net) :
           ( /\ Deliver(i)
             /\ net[i].kind = "run"
             /\ RoutingMiss(net[i].to, net[i].targetId, net[i].chainId) ) =>
              UNCHANGED <<node, nodes, nextId, chains, nextChain, reports, childChains>> ]_vars

\* C21 witness: the run payload of a chain's last local node reached the remote
\* host before the setup of the remote node did; it is gone, the remote host
\* still has no node and the setup is still on its way.
C21_Witness ==
  /\ nodes["h2"] = {}
  /\ Len(net) = 1 /\ net[1].kind = "setup"
  /\ \E n \in NodeIds :
       /\ node[n].lastHandoff # <<>>
       /\ node[n].lastHandoff[1].kind = RemoteServiceCallback
       /\ node[n].handoffs = 1
  /\ \A n \in NodeIds : node[n].host = "h2" => ~node[n].created

\* The setup requests in flight.
SetupsIn(q) == Cardinality({ i \in 1..Len(q) : q[i].kind = "setup" })
\* The chain configuration as it was submitted: createChain's entries carry count.
Submitted(relation) == SubSeq(relation.config, 1, relation.config[1].count)

\* C22: a deployment whose setup broadcast fails is carried out all the same:
\* every local config gets its node, the local nodes are linked in order and the
\* last one to the first remote service, CHAIN_DEPLOYED is reported with the
\* chainId; a deployment posts at most one setup request per remote config and
\* no other step posts one again.
C22_BroadcastFailureDoesNotAbort ==
  [][ /\ nextChain' = nextChain + 1 =>
           LET c == ChainNames[nextChain]
               locals == SelectSeq2(Submitted(chains'["h1"][c][1]), LocLocal)
               remotes == SelectSeq2(Submitted(chains'["h1"][c][1]), LocRemote)
           IN /\ nextId' = nextId + Len(locals)
              /\ \A k \in 1..Len(locals) :
                    LET n == nextId + k - 1 IN
                    /\ n \in nodes'["h1"]
                    /\ node'[n].created
                    /\ node'[n].config.services = locals[k].services
                    /\ node'[n].nextNodeInfo =
                         IF k < Len(locals)
                         THEN <<[type |-> TypeLocal, id |-> n + 1, targetId |-> ""]>>
                         ELSE IF remotes # <<>>
                         THEN <<[type |-> TypeRemote, id |-> 0,
                                 targetId |-> remotes[1].services[1]]>>
                         ELSE <<>>
              /\ Len(reports') = Len(reports) + 1
              /\ reports'[Len(reports')].status = CHAIN_DEPLOYED
              /\ reports'[Len(reports')].chainId = c
              /\ SetupsIn(net') - SetupsIn(net) \in {0, Len(remotes)}
      /\ nextChain' = nextChain => SetupsIn(net') <= SetupsIn(net) ]_vars

\* C22 witness: a chain with a remote node is deployed and reported, no setup
\* request is in flight and none has arrived, and the root has run and handed on.
C22_Witness ==
  \E c \in ChainIds :
    /\ chains["h1"][c] # <<>>
    /\ SelectSeq2(Submitted(chains["h1"][c][1]), LocRemote) # <<>>
    /\ net = <<>>
    /\ nodes["h2"] = {}
    /\ \E i \in 1..Len(reports) : reports[i].status = CHAIN_DEPLOYED /\ reports[i].chainId = c
    /\ chains["h1"][c][1].rootNodeId # <<>>
    /\ node[chains["h1"][c][1].rootNodeId[1]].handoffs = 1

\* The request being handled is answered with an error and without a chainId,
\* and CHAIN_DEPLOYED is not reported.
DeployAborts ==
  /\ reply'.op = ops'
  /\ reply'.error
  /\ reply'.value = <<>>
  /\ reports' = reports

HasLocal(config) == \E i \in 1..Len(config) : config[i].location = LocLocal

\* C23 as amended: CHAIN_DEPLOY aborts for a config that is missing, not an
\* array or an empty array, and for a chain with a local node whose first entry
\* carries no monitoringHost.
C23_InvalidConfigAborts ==
  [][ /\ \A config \in {JsUndefined, JsObject} :
            ChainDeployNoArray("h1", config) => DeployAborts
      /\ \A config \in DeployConfigs :
            /\ config = <<>> \/ (HasLocal(config) /\ config[1].monitoringHost = "")
            /\ ChainDeploy("h1", config)
            => DeployAborts ]_vars

\* C23 witness: the first request was a deployment that was answered with an
\* error after its chain was stored and its first local node was created.
C23_Witness ==
  /\ reply = Reply(1, TRUE, <<>>)
  /\ reports = <<>>
  /\ chains["h1"]["c1"] # <<>>
  /\ nextId = 2
  /\ node[1].created

\* C23 as stated: CHAIN_DEPLOY aborts for a config that is missing, not an array
\* or an empty array, and for one with a local entry without monitoringHost.
C23_LocalWithoutHostAborts ==
  [][ /\ \A config \in {JsUndefined, JsObject} :
            ChainDeployNoArray("h1", config) => DeployAborts
      /\ \A config \in DeployConfigs :
            /\ \/ config = <<>>
               \/ \E i \in 1..Len(config) :
                     config[i].location = LocLocal /\ config[i].monitoringHost = ""
            /\ ChainDeploy("h1", config)
            => DeployAborts ]_vars

\* The nodes set up for a chain on the host that deployed it.
ChainNodes(c) == { n \in NodeIds : node[n].created /\ node[n].config.chainId = c }
\* The first place of x in the sequence, 0 if it has none.
First(seq, x) ==
  IF Count(seq, x) = 0 THEN 0
  ELSE CHOOSE i \in 1..Len(seq) : seq[i] = x /\ \A j \in 1..(i - 1) : seq[j] # x
\* The CHAIN_DEPLOYED reports of a chain.
Deployed(c) ==
  { i \in 1..Len(reports) : reports[i].status = CHAIN_DEPLOYED /\ reports[i].chainId = c }

\* C24: a chain of N local nodes that was deployed and started at most once has
\* N nodes with one NODE_SETUP_COMPLETED each, one CHAIN_DEPLOYED that came after
\* all of them, at most one NODE_COMPLETED per node, and NODE_END_OF_PIPELINE at
\* most once, from the last node and after its NODE_COMPLETED; when the run that
\* was started has ended in every node, every node has its NODE_COMPLETED and the
\* last node its NODE_END_OF_PIPELINE.
C24_LocalChainReports ==
  \A c \in ChainIds :
    chains["h1"][c] # <<>> =>
      LET N == chains["h1"][c][1].config[1].count
          root == chains["h1"][c][1].rootNodeId[1]
          last == root + N - 1
      IN node[root].enq <= 1 =>
           /\ ChainNodes(c) = root..last
           /\ \A n \in ChainNodes(c) :
                 /\ Count(node[n].notified, NODE_SETUP_COMPLETED) = 1
                 /\ Count(node[n].notified, NODE_COMPLETED) <= 1
                 /\ Count(node[n].notified, NODE_END_OF_PIPELINE)
                       <= (IF n = last THEN 1 ELSE 0)
                 /\ Count(node[n].notified, NODE_END_OF_PIPELINE) = 1 =>
                       /\ Count(node[n].notified, NODE_COMPLETED) = 1
                       /\ First(node[n].notified, NODE_COMPLETED)
                            < First(node[n].notified, NODE_END_OF_PIPELINE)
           /\ Cardinality(Deployed(c)) = 1
           /\ \A i \in Deployed(c) : ChainNodes(c) \subseteq reports[i].setups
           /\ (\A n \in ChainNodes(c) : node[n].enq = 1 /\ node[n].fin = 1) =>
                 /\ \A n \in ChainNodes(c) : Count(node[n].notified, NODE_COMPLETED) = 1
                 /\ Count(node[last].notified, NODE_END_OF_PIPELINE) = 1

\* C24 witness: a chain of at least two local nodes was started once and its run
\* has ended in every node, the last of which has reported the end of the pipeline.
C24_Witness ==
  \E c \in ChainIds :
    /\ chains["h1"][c] # <<>>
    /\ Cardinality(ChainNodes(c)) >= 2
    /\ \A n \in ChainNodes(c) :
          /\ node[n].config.location = LocLocal
          /\ node[n].enq = 1
          /\ node[n].fin = 1
          /\ Count(node[n].notified, NODE_COMPLETED) = 1
    /\ \E n \in ChainNodes(c) : Count(node[n].notified, NODE_END_OF_PIPELINE) = 1

\* Nothing is left to do without a further request from outside: no message is
\* in flight and no node has work queued, running or awaited.
Quiescent ==
  /\ net = <<>>
  /\ \A n \in NodeIds :
        /\ node[n].pc = "idle"
        /\ node[n].queue = <<>>
        /\ node[n].cur = <<>>
        /\ node[n].inflight = {}

\* C25: once a chain is deployed with a local root and nothing is left to do,
\* the root node has been executed (the deployment has led to the chain's start).
C25_DeployStartsChain ==
  \A c \in ChainIds :
    /\ chains["h1"][c] # <<>>
    /\ chains["h1"][c][1].rootNodeId # <<>>
    /\ chains["h1"][c][1].dataRef # <<>>
    /\ Quiescent
    => node[chains["h1"][c][1].rootNodeId[1]].enq >= 1

\* C26: a node whose chainConfig holds a parallel entry and that has run to
\* NODE_COMPLETED has had a child chain deployed by its supervisor.
C26_ExecuteDeploysChild ==
  \A n \in NodeIds :
    /\ node[n].created
    /\ \E i \in 1..Len(node[n].config.chainConfig) : node[n].config.chainConfig[i] = "parallel"
    /\ node[n].completions >= 1
    => \E c \in ChainIds : chains[node[n].host][c] # <<>>

\* How often the nodes of S have handed the status to their reporting agents.
RECURSIVE NotifiedBy(_, _, _)
NotifiedBy(nd, status, S) ==
  IF S = {} THEN 0
  ELSE LET n == CHOOSE x \in S : TRUE
       IN Count(nd[n].notified, status) + NotifiedBy(nd, status, S \ {n})
Notified(nd, status) == NotifiedBy(nd, status, NodeIds)

\* The run of a chain has finished: none of its nodes has work queued, running
\* or suspended, and none of its messages is in flight.
RunFinished(nd, q, c) ==
  /\ \A i \in 1..Len(q) : q[i].chainId # c
  /\ \A n \in NodeIds :
        nd[n].created /\ nd[n].config.chainId = c =>
          /\ nd[n].pc = "idle"
          /\ nd[n].queue = <<>>
          /\ nd[n].cur = <<>>
          /\ nd[n].suspendedState = <<>>

\* The mode in which startPendingChain starts the chain: "parallel" or "serial"
\* for a child chain, "plain" without rootConfig.
ModeOf(c) ==
  LET rootConfig == chains["h1"][c][1].config[1].rootConfig IN
  IF rootConfig = <<>> THEN "plain"
  ELSE IF rootConfig[1].childMode = "parallel" THEN "parallel" ELSE "serial"

\* C27: startPendingChain on a child chain with stashed data.  In parallel mode
\* CHILD_CHAIN_STARTED is emitted while the root's execution is queued and not
\* begun, and the call returns in that step.  CHILD_CHAIN_COMPLETED is emitted
\* only once the chain's run has finished.  In serial mode the call returns only
\* once the chain's run has finished and CHILD_CHAIN_COMPLETED is emitted then.
\* The last two are stated for a chain that was started once.
C27_PendingChildSignals ==
  [][ \A c \in ChainIds :
        chains["h1"][c] # <<>> /\ ModeOf(c) # "plain" =>
          LET root == chains["h1"][c][1].rootNodeId[1] IN
          /\ ( /\ ModeOf(c) = "parallel"
               /\ ChainStartPending("h1", c)
               /\ root \in nodes["h1"] )
             => /\ Notified(node', CHILD_CHAIN_STARTED) = Notified(node, CHILD_CHAIN_STARTED) + 1
                /\ node'[root].enq = node[root].enq + 1
                /\ node'[root].fin = node[root].fin
                /\ chains'["h1"][c][1].returned = chains["h1"][c][1].returned + 1
          /\ ( /\ node[root].enq <= 1
               /\ Notified(node', CHILD_CHAIN_COMPLETED) > Notified(node, CHILD_CHAIN_COMPLETED) )
             => RunFinished(node', net', c)
          /\ ( /\ ModeOf(c) = "serial"
               /\ node[root].enq <= 1
               /\ chains'["h1"][c][1].returned > chains["h1"][c][1].returned )
             => /\ RunFinished(node', net', c)
                /\ Notified(node', CHILD_CHAIN_COMPLETED)
                     = Notified(node, CHILD_CHAIN_COMPLETED) + 1 ]_vars

\* C28: a startPendingChain that runs the root of a chain with stashed data
\* hands the root exactly that data.
C28_PendingStartUsesDataRef ==
  [][ \A c \in ChainIds :
        /\ ChainStartPending("h1", c)
        /\ chains["h1"][c][1].dataRef # <<>>
        /\ chains["h1"][c][1].rootNodeId # <<>>
        /\ node'[chains["h1"][c][1].rootNodeId[1]].enq
             = node[chains["h1"][c][1].rootNodeId[1]].enq + 1
        => LET queue == node'[chains["h1"][c][1].rootNodeId[1]].queue
           IN queue[Len(queue)].data = chains["h1"][c][1].dataRef[1] ]_vars

\* The next node info of the last local node: the first service of the first
\* remote config if it has one; else, the next target its own config names, if any.
LastLocalNext(locals, remotes, own) ==
  IF remotes # <<>> /\ remotes[1].services # <<>>
  THEN <<[type |-> TypeRemote, id |-> 0, targetId |-> remotes[1].services[1]]>>
  ELSE IF own /\ locals[Len(locals)].nextTargetId # <<>>
  THEN <<[type |-> TypeRemote, id |-> 0, targetId |-> locals[Len(locals)].nextTargetId[1]]>>
  ELSE <<>>

\* After a deployment the root is the node of the first local config, every
\* local node but the last points to the node of the next local config as
\* LOCAL, and the last one has the next node info LastLocalNext.
LocalNodesLinked(own) ==
  nextChain' = nextChain + 1 /\ ~reply'.error =>
    LET c == ChainNames[nextChain]
        locals == SelectSeq2(Submitted(chains'["h1"][c][1]), LocLocal)
        remotes == SelectSeq2(Submitted(chains'["h1"][c][1]), LocRemote)
    IN /\ chains'["h1"][c][1].rootNodeId = IF locals = <<>> THEN <<>> ELSE <<nextId>>
       /\ \A k \in 1..Len(locals) :
             node'[nextId + k - 1].nextNodeInfo =
               IF k < Len(locals)
               THEN <<[type |-> TypeLocal, id |-> nextId + k, targetId |-> ""]>>
               ELSE LastLocalNext(locals, remotes, own)

\* C29 as amended: after prepareChainDistribution the root is the node of L0,
\* each Li with i < n points to the node of L(i+1) as LOCAL, and Ln points as
\* REMOTE to the first service of R0 if R0 exists and has a service; otherwise
\* Ln keeps what setupNode gave it: REMOTE to the nextTargetId of its own config
\* if that names one, and nothing if not.
C29_LocalNodesLinked == [][LocalNodesLinked(TRUE)]_vars

\* C29 witness: two local nodes and a remote one were deployed; the first node
\* is the root and points to the second, which points to the remote service.
C29_Witness ==
  /\ chains["h1"]["c1"] # <<>>
  /\ chains["h1"]["c1"][1].rootNodeId = <<1>>
  /\ node[1].nextNodeInfo = <<[type |-> TypeLocal, id |-> 2, targetId |-> ""]>>
  /\ node[2].nextNodeInfo = <<[type |-> TypeRemote, id |-> 0, targetId |-> SvcC]>>
  /\ Len(Submitted(chains["h1"]["c1"][1])) = 3

\* C29 as stated: without an R0 that has a service, Ln has no next node info.
C29_LastLocalNullWithoutRemote == [][LocalNodesLinked(FALSE)]_vars

\* The setup requests a deployment has posted, in order.
PostedSetups == SubSeq(net', Len(net) + 1, Len(net'))

\* C30: a deployment posts the remote configs that have a service, in order,
\* each with the first service of the remote config after it as nextTargetId
\* and the last one with none; a node set up from such a request points as
\* REMOTE to that nextTargetId, and to nothing if the request carries none, in
\* which case its run ends the pipeline.
C30_RemoteLookahead ==
  [][ /\ nextChain' = nextChain + 1 /\ ~reply'.error =>
           LET c == ChainNames[nextChain]
               remotes == SelectSeq2(Submitted(chains'["h1"][c][1]), LocRemote)
               served == { i \in 1..Len(remotes) : remotes[i].services # <<>> }
           IN /\ Len(PostedSetups) = Cardinality(served)
              /\ \A i \in served :
                    LET m == PostedSetups[Cardinality({ j \in served : j <= i })] IN
                    /\ m.kind = "setup"
                    /\ m.chainId = c
                    /\ m.to = HostOf(remotes[i].services[1])
                    /\ m.config.services = remotes[i].services
                    /\ m.config.nextTargetId =
                         IF i < Len(remotes) /\ remotes[i + 1].services # <<>>
                         THEN <<remotes[i + 1].services[1]>>
                         ELSE <<>>
      /\ \A i \in 1..Len(net) :
           net[i].kind = "setup" /\ Deliver(i) =>
             /\ nextId' = nextId + 1
             /\ node'[nextId].config.services = net[i].config.services
             /\ node'[nextId].nextNodeInfo =
                  IF net[i].config.nextTargetId # <<>>
                  THEN <<[type |-> TypeRemote, id |-> 0,
                          targetId |-> net[i].config.nextTargetId[1]]>>
                  ELSE <<>>
      /\ \A n \in NodeIds :
           /\ node[n].config.location = LocRemote
           /\ node[n].completions = 0
           /\ node'[n].completions = 1
           => IF node[n].nextNodeInfo = <<>>
              THEN /\ Count(node'[n].notified, NODE_END_OF_PIPELINE) = 1
                   /\ net' = net
              ELSE /\ Count(node'[n].notified, NODE_END_OF_PIPELINE) = 0
                   /\ net' = Append(net, Msg("run", HostOf(node[n].nextNodeInfo[1].targetId),
                                              node[n].config.chainId,
                                              node[n].nextNodeInfo[1].targetId,
                                              node'[n].forwarded[1], NoConfig)) ]_vars

\* C30 witness: of two remote nodes, the one set up from the first remote
\* config has handed its output to the service of the second, and the node of
\* the second has run and reported the end of the pipeline.
C30_Witness ==
  \E a, b \in NodeIds :
    /\ node[a].created /\ node[a].config.location = LocRemote
    /\ node[b].created /\ node[b].config.location = LocRemote
    /\ node[a].nextNodeInfo =
         <<[type |-> TypeRemote, id |-> 0, targetId |-> node[b].config.services[1]]>>
    /\ node[a].handoffs = 1
    /\ node[b].nextNodeInfo = <<>>
    /\ node[b].completions = 1
    /\ Count(node[b].notified, NODE_END_OF_PIPELINE) = 1

\* The chains a host has deployed as children of the chain p: their first entry
\* carries the rootConfig of a node of p, and their deployment has ended.
ChildrenOf(h, p) ==
  { c \in ChainIds :
      /\ chains[h][c] # <<>>
      /\ chains[h][c][1].dataRef # <<>>
      /\ chains[h][c][1].config[1].rootConfig # <<>>
      /\ chains[h][c][1].config[1].rootConfig[1].chainId = p }

\* C31: childChains[p] lists exactly the chains that were deployed as children
\* of p, each of them once.
C31_ChildChainsListed ==
  \A h \in Hosts, p \in ParentIds :
    /\ { childChains[h][p][i] : i \in 1..Len(childChains[h][p]) } = ChildrenOf(h, p)
    /\ Len(childChains[h][p]) = Cardinality(ChildrenOf(h, p))

\* C32: when the pre-stage returned no value, the data the execution goes on
\* with is the input data, unchanged.
C32_NoPreDataKeepsInput ==
  (pre.merged # <<>> /\ pre.preData = PreData("undefined", <<>>)) =>
    pre.merged[1] = pre.data

\* C33: an execution whose queued work begins while the node holds a suspended
\* state takes the resume branch: it starts no pipeline and counts as a resumed
\* run, whenever execute was called.
C33_ResumeDecidedAtStart ==
  [][ \A n \in NodeIds :
        (StartWork(n) /\ node[n].suspendedState # <<>>) =>
           /\ node'[n].resumedRuns = node[n].resumedRuns + 1
           /\ node'[n].inflight = node[n].inflight ]_vars

\* C34: a node that has failed and has no execution running or queued keeps its
\* output list and its progress.
C34_FailedNodeIsFrozen ==
  [][ \A n \in NodeIds :
        ( /\ node[n].status = NODE_FAILED
          /\ node[n].cur = <<>>
          /\ node[n].queue = <<>> ) =>
           /\ node'[n].output = node[n].output
           /\ node'[n].progress = node[n].progress ]_vars

\* C35: a CHAIN_DEPLOY that is answered with an error leaves the chain and node
\* registries of every supervisor as they were before the request.
C35_FailedDeployLeavesNoTrace ==
  [][ /\ \A config \in {JsUndefined, JsObject} :
            (ChainDeployNoArray("h1", config) /\ reply'.error) =>
               UNCHANGED <<chains, nodes>>
      /\ \A config \in DeployConfigs :
            (ChainDeploy("h1", config) /\ reply'.error) =>
               UNCHANGED <<chains, nodes>> ]_vars

\* C36: in a chain that was started once, no node is executed a second time: the
\* submitted data is never routed back to a node that has processed it.
C36_EachNodeRunsOnce ==
  \A n \in NodeIds : node[n].created => node[n].enq <= 1

\* C37: an execution that sets NODE_COMPLETED takes its hand-off action in the
\* same run of the code, also when its node was deleted from the registry while
\* the execution was in flight.
C37_DeletedNodeStillHandsOff ==
  [][ \A n \in NodeIds :
        ( /\ node'[n].completions > node[n].completions
          /\ n \notin nodes[node[n].host] ) =>
           node'[n].handoffs = node[n].handoffs + 1 ]_vars

\* C38: for every chain a supervisor holds, the registered local nodes of the
\* chain are as many as the local entries of the submitted config, and one of
\* them is the chain's root.
C38_PrepareIsIdempotent ==
  \A c \in ChainIds :
    chains["h1"][c] # <<>> =>
      LET relation == chains["h1"][c][1]
          local == { n \in nodes["h1"] : /\ node[n].config.chainId = c
                                         /\ node[n].config.location = LocLocal }
      IN /\ Cardinality(local) = Len(SelectSeq2(Submitted(relation), LocLocal))
         /\ relation.rootNodeId # <<>>
         /\ relation.rootNodeId[1] \in local
         /\ Cardinality({ n \in local : node[n].config.index = 0 }) = 1

\* C39: of two nodes of one chain, the one with the higher config index does not
\* start an execution before the one with the lower index has completed one.
C39_IndexOrder ==
  \A n, m \in NodeIds :
    ( /\ node[n].created /\ node[m].created
      /\ node[n].config.chainId # NoChain
      /\ node[n].config.chainId = node[m].config.chainId
      /\ node[n].config.index < node[m].config.index
      /\ Started(m) ) => node[n].completions >= 1

\* C40: the root node of a chain has been handed CHILD_CHAIN_COMPLETED at most
\* as often as an execution of it has ended in NODE_COMPLETED.
C40_CompletedOnlyAfterSuccess ==
  \A c \in ChainIds :
    (chains["h1"][c] # <<>> /\ chains["h1"][c][1].rootNodeId # <<>>) =>
      LET root == chains["h1"][c][1].rootNodeId[1]
      IN Count(node[root].notified, CHILD_CHAIN_COMPLETED) <= node[root].completions

====
